---- MODULE Spec2Model ----
(***************************************************************************)
(* Execution core of the regex library: instruction programs, the prefix   *)
(* literal extractor and matcher, the bounded backtracker, the NFA         *)
(* simulation and the dispatcher that selects an engine per call.          *)
(*                                                                         *)
(* Program counters and byte offsets are 0-based as in the source; the     *)
(* TLA+ sequences that hold them are 1-based, so element i of a vector is  *)
(* v[i + 1].                                                               *)
(***************************************************************************)
EXTENDS Integers, Sequences, FiniteSets, TLC

\* Option::None of a capture slot, and the absent Char.
None == -1
\* A fatal error (panic) where a function returns an offset.
Fatal == None - 1

\* ------------------------------------------------------------------------
\* Bounds of the model.

\* Longest search text, in bytes.
MaxLen == 4
\* Number of exec calls made on one Program (the caches live across them).
MaxCalls == 2
MaxReuseLen == 3
MaxThreads == 2
MaxChars == 3
MaxLits == 2
MaxLitLen == 2
MaxHay == 5

\* The bytes the search texts are made of ('a', 'b').
Alphabet == {97, 98}

RECURSIVE SeqsUpTo(_, _)
SeqsUpTo(S, n) ==
    IF n = 0 THEN {<<>>}
    ELSE LET shorter == SeqsUpTo(S, n - 1)
         IN  shorter \cup {Append(s, x) : s \in {t \in shorter : Len(t) = n - 1}, x \in S}

Texts == SeqsUpTo(Alphabet, MaxLen)

\* ------------------------------------------------------------------------
\* Constants of the backtracker (backtrack.rs).

BIT_SIZE == 32
MAX_PROG_SIZE == 100
MAX_INPUT_SIZE == 262144

\* ------------------------------------------------------------------------
\* Instructions (inst.rs).

Match == [op |-> "Match"]
Save(slot, goto) == [op |-> "Save", goto |-> goto, slot |-> slot]
Split(goto1, goto2) == [op |-> "Split", goto1 |-> goto1, goto2 |-> goto2]
EmptyLook(look, goto) == [op |-> "EmptyLook", goto |-> goto, look |-> look]
Char(c, goto) == [op |-> "Char", goto |-> goto, c |-> c]
Ranges(ranges, goto) == [op |-> "Ranges", goto |-> goto, ranges |-> ranges]
Bytes(start, end, goto) == [op |-> "Bytes", goto |-> goto, start |-> start, end |-> end]

\* insts[pc]
InstAt(insts, pc) == insts[pc + 1]

RECURSIVE skip(_, _)
skip(insts, pc) ==
    IF InstAt(insts, pc).op = "Save" THEN skip(insts, InstAt(insts, pc).goto) ELSE pc

leads_to_match(insts, pc) == InstAt(insts, skip(insts, pc)).op = "Match"

anchored_begin(insts) ==
    /\ Len(insts) > 1
    /\ InstAt(insts, 1).op = "EmptyLook"
    /\ InstAt(insts, 1).look = "StartText"

anchored_end(insts) ==
    /\ Len(insts) >= 3
    /\ InstAt(insts, Len(insts) - 3).op = "EmptyLook"
    /\ InstAt(insts, Len(insts) - 3).look = "EndText"

is_word_char(c) ==
    \/ c \in 48..57
    \/ c \in 65..90
    \/ c \in 97..122
    \/ c = 95

\* Variant of InstEmptyLook_matches: StartText holds at every position.
InstEmptyLook_matches_StartAnywhere(inst, c1, c2) ==
    CASE inst.look = "StartLine" -> c1 = None \/ c1 = 10
      [] inst.look = "EndLine" -> c2 = None \/ c2 = 10
      [] inst.look = "StartText" -> TRUE
      [] inst.look = "EndText" -> c2 = None
      [] OTHER ->
            LET w1 == is_word_char(c1)
                w2 == is_word_char(c2)
            IN  \/ inst.look = "WordBoundary" /\ (w1 /= w2)
                \/ inst.look = "NotWordBoundary" /\ ~(w1 /= w2)

\* Variant of InstEmptyLook_matches: NotWordBoundary asks for a word
\* character on both sides.
InstEmptyLook_matches_BothWords(inst, c1, c2) ==
    CASE inst.look = "StartLine" -> c1 = None \/ c1 = 10
      [] inst.look = "EndLine" -> c2 = None \/ c2 = 10
      [] inst.look = "StartText" -> c1 = None
      [] inst.look = "EndText" -> c2 = None
      [] OTHER ->
            LET w1 == is_word_char(c1)
                w2 == is_word_char(c2)
            IN  \/ inst.look = "WordBoundary" /\ (w1 /= w2)
                \/ inst.look = "NotWordBoundary" /\ w1 /\ w2

InstEmptyLook_matches(inst, c1, c2) ==
    CASE inst.look = "StartLine" -> c1 = None \/ c1 = 10
      [] inst.look = "EndLine" -> c2 = None \/ c2 = 10
      [] inst.look = "StartText" -> c1 = None
      [] inst.look = "EndText" -> c2 = None
      [] OTHER ->
            LET w1 == is_word_char(c1)
                w2 == is_word_char(c2)
            IN  \/ inst.look = "WordBoundary" /\ (w1 /= w2)
                \/ inst.look = "NotWordBoundary" /\ ~(w1 /= w2)

\* Char comparisons: the absent Char is u32::MAX, above every character.
CharLt(c, ch) == c /= None /\ c < ch
CharLe(c, ch) == c /= None /\ c <= ch

\* Variant of RangesScan: the upper end of a range is tested alone.
RECURSIVE RangesScan_NoLowerTest(_, _, _)
RangesScan_NoLowerTest(ranges, c, i) ==
    IF i > Len(ranges) \/ i > 4 THEN "search"
    ELSE IF CharLe(c, ranges[i][2]) THEN "true"
    ELSE RangesScan_NoLowerTest(ranges, c, i + 1)

RECURSIVE RangesScan(_, _, _)
\* The linear scan over the first four ranges: "true", "false" or "search".
RangesScan(ranges, c, i) ==
    IF i > Len(ranges) \/ i > 4 THEN "search"
    ELSE IF CharLt(c, ranges[i][1]) THEN "false"
    ELSE IF CharLe(c, ranges[i][2]) THEN "true"
    ELSE RangesScan(ranges, c, i + 1)

\* slice::binary_search_by(..).is_ok() with the comparator of matches, over
\* the lim ranges from base: Less for a range r with r.1 < c, Greater for
\* one with r.0 > c, and Equal otherwise.
RECURSIVE BinarySearch(_, _, _, _)
BinarySearch(ranges, c, base, lim) ==
    IF lim = 0 THEN FALSE
    ELSE LET ix == base + lim \div 2
             r == ranges[ix + 1]
         IN  IF c = None \/ r[2] < c
             THEN BinarySearch(ranges, c, ix + 1, (lim - 1) \div 2)
             ELSE IF r[1] > c
             THEN BinarySearch(ranges, c, base, lim \div 2)
             ELSE TRUE

InstRanges_matches(inst, c) ==
    LET scan == RangesScan(inst.ranges, c, 1)
    IN  IF scan = "search"
        THEN BinarySearch(inst.ranges, c, 0, Len(inst.ranges))
        ELSE scan = "true"

InstBytes_matches(inst, byte) == inst.start <= byte /\ byte <= inst.end

\* ------------------------------------------------------------------------
\* Programs. The compiler is outside this development: a Program is one of
\* the instruction sequences below, each in its Unicode form (Char) and in
\* its byte form (Bytes). Layout: insts[0] is Save(0), the expression
\* follows from pc 1, then Save(1) and Match.

Lit(bytes, c, goto) == IF bytes THEN Bytes(c, c, goto) ELSE Char(c, goto)

\* `a`
Insts_a(b) == << Save(0, 1), Lit(b, 97, 2), Save(1, 3), Match >>
\* `ab`
Insts_ab(b) == << Save(0, 1), Lit(b, 97, 2), Lit(b, 98, 3), Save(1, 4), Match >>
\* `ab|a`
Insts_ab_a(b) ==
    << Save(0, 1), Split(2, 4), Lit(b, 97, 3), Lit(b, 98, 5), Lit(b, 97, 5),
       Save(1, 6), Match >>
\* `a|ab`
Insts_a_ab(b) ==
    << Save(0, 1), Split(2, 3), Lit(b, 97, 5), Lit(b, 97, 4), Lit(b, 98, 5),
       Save(1, 6), Match >>
\* `ab|ba`
Insts_ab_ba(b) ==
    << Save(0, 1), Split(2, 4), Lit(b, 97, 3), Lit(b, 98, 6), Lit(b, 98, 5),
       Lit(b, 97, 6), Save(1, 7), Match >>
\* `aba|b`
Insts_aba_b(b) ==
    << Save(0, 1), Split(2, 5), Lit(b, 97, 3), Lit(b, 98, 4), Lit(b, 97, 6),
       Lit(b, 98, 6), Save(1, 7), Match >>
\* `(a)|b`
Insts_grp(b) ==
    << Save(0, 1), Split(2, 5), Save(2, 3), Lit(b, 97, 4), Save(3, 6),
       Lit(b, 98, 6), Save(1, 7), Match >>
\* `(a)|(b)`
Insts_grp2(b) ==
    << Save(0, 1), Split(2, 5), Save(2, 3), Lit(b, 97, 4), Save(3, 8),
       Save(4, 6), Lit(b, 98, 7), Save(5, 8), Save(1, 9), Match >>
\* `a*`
Insts_astar(b) == << Save(0, 1), Split(2, 3), Lit(b, 97, 1), Save(1, 4), Match >>
\* `(a*)*`
Insts_nest(b) ==
    << Save(0, 1), Split(2, 6), Save(2, 3), Split(4, 5), Lit(b, 97, 3),
       Save(3, 1), Save(1, 7), Match >>
\* `a+b`
Insts_aplus_b(b) ==
    << Save(0, 1), Lit(b, 97, 2), Split(1, 3), Lit(b, 98, 4), Save(1, 5), Match >>
\* `^a`
Insts_anch(b) ==
    << Save(0, 1), EmptyLook("StartText", 2), Lit(b, 97, 3), Save(1, 4), Match >>
\* `a$`
Insts_a_end(b) ==
    << Save(0, 1), Lit(b, 97, 2), EmptyLook("EndText", 3), Save(1, 4), Match >>
\* `$`
Insts_end(b) == << Save(0, 1), EmptyLook("EndText", 2), Save(1, 3), Match >>
\* the empty pattern
Insts_empty(b) == << Save(0, 1), Save(1, 2), Match >>

\* a*[ab]{96}: one instruction more than MAX_PROG_SIZE.
Rng(bytes, lo, hi, goto) ==
    IF bytes THEN Bytes(lo, hi, goto) ELSE Ranges(<< << lo, hi >> >>, goto)

BigChain == [i \in 1..(MAX_PROG_SIZE - 4) |-> i + 2]
Insts_big(b) ==
    << Save(0, 1), Split(2, 3), Lit(b, 97, 1) >>
    \o [i \in 1..Len(BigChain) |-> Rng(b, 97, 98, BigChain[i] + 1)]
    \o << Save(1, Len(BigChain) + 4), Match >>

ProgNames ==
    { "a", "ab", "ab|a", "a|ab", "ab|ba", "(a)|b", "(a)|(b)", "a*", "(a*)*", "a+b",
      "^a", "a$", "$", "", "a*[ab]{96}", "aba|b" }

InstsFor(name, b) ==
    CASE name = "a" -> Insts_a(b)
      [] name = "ab" -> Insts_ab(b)
      [] name = "ab|a" -> Insts_ab_a(b)
      [] name = "a|ab" -> Insts_a_ab(b)
      [] name = "ab|ba" -> Insts_ab_ba(b)
      [] name = "aba|b" -> Insts_aba_b(b)
      [] name = "(a)|b" -> Insts_grp(b)
      [] name = "(a)|(b)" -> Insts_grp2(b)
      [] name = "a*" -> Insts_astar(b)
      [] name = "(a*)*" -> Insts_nest(b)
      [] name = "a+b" -> Insts_aplus_b(b)
      [] name = "^a" -> Insts_anch(b)
      [] name = "a$" -> Insts_a_end(b)
      [] name = "$" -> Insts_end(b)
      [] name = "" -> Insts_empty(b)
      [] OTHER -> Insts_big(b)

\* A Program is named by its pattern and mode; its fields are derived from
\* the instruction sequence.
Programs == [name : ProgNames, bytes : BOOLEAN]

InstsOf == [p \in Programs |-> InstsFor(p.name, p.bytes)]

\* prog.insts
prog_insts(p) == InstsOf[p]

\* num_captures: the greatest slot + 1 over the Save instructions, halved.
num_captures(is) ==
    LET ns == { is[i].slot + 1 : i \in { j \in 1..Len(is) : is[j].op = "Save" } }
        n == IF ns = {} THEN 0 ELSE CHOOSE x \in ns : \A y \in ns : y <= x
    IN  n \div 2

alloc_captures(p) == [i \in 1..(2 * num_captures(prog_insts(p))) |-> None]

\* ------------------------------------------------------------------------
\* Input abstraction (input.rs). A text is a sequence of bytes holding valid
\* UTF-8; text[i + 1] is the byte at offset i.

\* Width of the UTF-8 encoding that starts with byte b (1 and 2 byte forms).
Utf8Width(b) == IF b < 128 THEN 1 ELSE 2

IsCharBoundary(text, i) ==
    \/ i = 0
    \/ i = Len(text)
    \/ i < Len(text) /\ ~(text[i + 1] \in 128..191)

\* text[i..].chars().next()
DecodeAt(text, i) ==
    IF i >= Len(text) THEN None
    ELSE IF text[i + 1] < 128 THEN text[i + 1]
    ELSE (text[i + 1] - 192) * 64 + (text[i + 2] - 128)

\* text[..i].chars().rev().next()
DecodeBefore(text, i) ==
    IF i = 0 THEN None
    ELSE IF text[i] < 128 THEN text[i]
    ELSE (text[i - 1] - 192) * 64 + (text[i] - 128)

\* Char::len_utf8: the absent character has width 0.
Char_len_utf8(c) == IF c = None THEN 0 ELSE IF c < 128 THEN 1 ELSE 2

\* CharInput::at slices the str at i: fatal beyond the end or inside a character.
CharInput_at_ok(text, i) == i <= Len(text) /\ IsCharBoundary(text, i)

CharInput_at(text, i) ==
    LET c == DecodeAt(text, i)
    IN  [pos |-> i, c |-> c, byte |-> None, len |-> Char_len_utf8(c)]

\* ByteInput::at: self.get(i), absent at and beyond the end.
ByteInput_at(text, i) ==
    [pos |-> i, c |-> None, byte |-> IF i < Len(text) THEN text[i + 1] ELSE None,
     len |-> 1]

Input_at(bytes, text, i) == IF bytes THEN ByteInput_at(text, i) ELSE CharInput_at(text, i)

Input_at_ok(bytes, text, i) == bytes \/ CharInput_at_ok(text, i)

next_pos(at) == at.pos + at.len

is_beginning(at) == at.pos = 0

\* InputAt::is_end
is_end(text, at) == at.pos = Len(text)

next_char(text, pos) == DecodeAt(text, pos)

previous_char(text, pos) == DecodeBefore(text, pos)

\* ------------------------------------------------------------------------
\* Prefix literal extraction (literals.rs). AlternateLiterals is
\* [at_match, literals], literals a sequence of byte strings.

\* u8::MAX
U8_MAX == 255

\* encode_utf8 (1 and 2 byte forms)
encode_utf8(c) == IF c < 128 THEN <<c>> ELSE << 192 + (c \div 64), 128 + (c % 64) >>

\* The fold of num_bytes over lits[lo..hi], summed by halves.
RECURSIVE SumLens(_, _, _)
SumLens(lits, lo, hi) ==
    IF lo > hi THEN 0
    ELSE IF lo = hi THEN Len(lits[lo])
    ELSE LET mid == (lo + hi) \div 2
         IN  SumLens(lits, lo, mid) + SumLens(lits, mid + 1, hi)

num_bytes(alts) == SumLens(alts.literals, 1, Len(alts.literals))

AlternateLiterals_empty == [at_match |-> FALSE, literals |-> <<>>]

\* Variant of add_alternates: at_match is that of the path added last.
add_alternates_LastPath(self, alts) ==
    [at_match |-> alts.at_match, literals |-> self.literals \o alts.literals]

add_alternates(self, alts) ==
    [at_match |-> self.at_match /\ alts.at_match, literals |-> self.literals \o alts.literals]

add_literal_char(alts, c) ==
    [alts EXCEPT !.literals = [i \in 1..Len(alts.literals) |-> alts.literals[i] \o encode_utf8(c)]]

\* orig extended by each of the values lo..hi in turn, value-major.
RECURSIVE ExtendEach(_, _, _, _)
ExtendEach(orig, lo, hi, bytes) ==
    IF lo > hi THEN <<>>
    ELSE IF lo = hi
    THEN [i \in 1..Len(orig) |-> orig[i] \o (IF bytes THEN <<lo>> ELSE encode_utf8(lo))]
    ELSE LET mid == (lo + hi) \div 2
         IN  ExtendEach(orig, lo, mid, bytes) \o ExtendEach(orig, mid + 1, hi, bytes)

RECURSIVE ExtendRanges(_, _, _)
ExtendRanges(orig, ranges, i) ==
    IF i > Len(ranges) THEN <<>>
    ELSE ExtendEach(orig, ranges[i][1], ranges[i][2], FALSE) \o ExtendRanges(orig, ranges, i + 1)

add_literal_char_ranges(alts, inst) ==
    [alts EXCEPT !.literals = ExtendRanges(alts.literals, inst.ranges, 1)]

\* for b in inst.start..(inst.end + 1), the bound computed in u8
add_literal_byte_range(alts, inst) ==
    [alts EXCEPT !.literals =
        ExtendEach(alts.literals, inst.start, ((inst.end + 1) % 256) - 1, TRUE)]

RECURSIVE RangesChars(_, _)
RangesChars(ranges, i) ==
    IF i > Len(ranges) THEN 0
    ELSE 1 + ranges[i][2] - ranges[i][1] + RangesChars(ranges, i + 1)

InstRanges_num_chars(inst) == RangesChars(inst.ranges, 1)

\* BuildPrefixes::new: the global byte budget.
BuildPrefixes_limit == 3000

\* The u8 arithmetic of the walk along one path from pc overflows: in
\* `inst.end - inst.start + 1` of the budget test, or in `inst.end + 1` of the
\* loop of the expansion. A build with overflow checks panics there; one
\* without them wraps, as RequiredWalk and add_literal_byte_range compute.
RECURSIVE RequiredOverflows(_, _, _, _)
RequiredOverflows(insts, limit, alts, pc) ==
    LET inst == InstAt(insts, pc)
    IN  CASE inst.op = "Save" -> RequiredOverflows(insts, limit, alts, inst.goto)
          [] inst.op = "Char" ->
                /\ num_bytes(alts) + 1 <= limit
                /\ RequiredOverflows(insts, limit, add_literal_char(alts, inst.c), inst.goto)
          [] inst.op = "Ranges" ->
                LET nchars == InstRanges_num_chars(inst)
                IN  /\ num_bytes(alts) * nchars + Len(alts.literals) * nchars <= limit
                    /\ RequiredOverflows(insts, limit, add_literal_char_ranges(alts, inst),
                                         inst.goto)
          [] inst.op = "Bytes" ->
                LET nbytes == inst.end - inst.start + 1
                IN  \/ nbytes > U8_MAX
                    \/ /\ num_bytes(alts) * nbytes + Len(alts.literals) * nbytes <= limit
                       /\ \/ inst.end + 1 > U8_MAX
                          \/ RequiredOverflows(insts, limit,
                                               add_literal_byte_range(alts, inst), inst.goto)
          [] OTHER -> FALSE

\* BuildRequiredLiterals::literals: the walk along one path from pc.
RECURSIVE RequiredWalk(_, _, _, _)
RequiredWalk(insts, limit, alts, pc) ==
    LET inst == InstAt(insts, pc)
        stop == [alts EXCEPT !.at_match = FALSE]
    IN  CASE inst.op = "Save" -> RequiredWalk(insts, limit, alts, inst.goto)
          [] inst.op = "Char" ->
                IF num_bytes(alts) + 1 > limit THEN stop
                ELSE RequiredWalk(insts, limit, add_literal_char(alts, inst.c), inst.goto)
          [] inst.op = "Ranges" ->
                LET nchars == InstRanges_num_chars(inst)
                IN  IF num_bytes(alts) * nchars + Len(alts.literals) * nchars > limit THEN stop
                    ELSE RequiredWalk(insts, limit, add_literal_char_ranges(alts, inst), inst.goto)
          [] inst.op = "Bytes" ->
                LET nbytes == (inst.end - inst.start + 1) % 256
                IN  IF num_bytes(alts) * nbytes + Len(alts.literals) * nbytes > limit THEN stop
                    ELSE RequiredWalk(insts, limit, add_literal_byte_range(alts, inst), inst.goto)
          [] OTHER -> [alts EXCEPT !.at_match = leads_to_match(insts, pc)]

BuildRequiredLiterals_literals(insts, limit, pc) ==
    LET alts == RequiredWalk(insts, limit, [at_match |-> TRUE, literals |-> << <<>> >>], pc)
    IN  IF Len(alts.literals) = 1 /\ alts.literals[1] = <<>>
        THEN AlternateLiterals_empty
        ELSE alts

\* Variant of PrefixWalk: a path without literals is passed over.
RECURSIVE PrefixWalk_SkipsEmptyPath(_, _, _, _)
PrefixWalk_SkipsEmptyPath(insts, stack, seen, self) ==
    IF stack = <<>> THEN self
    ELSE LET top == stack[Len(stack)]
             rest == SubSeq(stack, 1, Len(stack) - 1)
             seen1 == seen \cup {top}
             pc == skip(insts, top)
             inst == InstAt(insts, pc)
         IN  IF inst.op = "Split"
             THEN LET s2 == IF inst.goto2 \in seen1 THEN rest ELSE Append(rest, inst.goto2)
                      s1 == IF inst.goto1 \in seen1 THEN s2 ELSE Append(s2, inst.goto1)
                  IN  PrefixWalk_SkipsEmptyPath(insts, s1, seen1, self)
             ELSE LET alts == BuildRequiredLiterals_literals(
                                  insts, BuildPrefixes_limit \div 10, pc)
                  IN  IF alts.literals = <<>> THEN PrefixWalk_SkipsEmptyPath(insts, rest, seen1, self)
                      ELSE IF num_bytes(self) + num_bytes(alts) > BuildPrefixes_limit
                      THEN AlternateLiterals_empty
                      ELSE PrefixWalk_SkipsEmptyPath(insts, rest, seen1, add_alternates(self, alts))

\* Variant of PrefixWalk: when the budget is exceeded the literals gathered
\* so far are returned.
RECURSIVE PrefixWalk_KeepsPartial(_, _, _, _)
PrefixWalk_KeepsPartial(insts, stack, seen, self) ==
    IF stack = <<>> THEN self
    ELSE LET top == stack[Len(stack)]
             rest == SubSeq(stack, 1, Len(stack) - 1)
             seen1 == seen \cup {top}
             pc == skip(insts, top)
             inst == InstAt(insts, pc)
         IN  IF inst.op = "Split"
             THEN LET s2 == IF inst.goto2 \in seen1 THEN rest ELSE Append(rest, inst.goto2)
                      s1 == IF inst.goto1 \in seen1 THEN s2 ELSE Append(s2, inst.goto1)
                  IN  PrefixWalk_KeepsPartial(insts, s1, seen1, self)
             ELSE LET alts == BuildRequiredLiterals_literals(
                                  insts, BuildPrefixes_limit \div 10, pc)
                  IN  IF alts.literals = <<>> THEN AlternateLiterals_empty
                      ELSE IF num_bytes(self) + num_bytes(alts) > BuildPrefixes_limit
                      THEN [self EXCEPT !.at_match = FALSE]
                      ELSE PrefixWalk_KeepsPartial(insts, rest, seen1, add_alternates(self, alts))

\* Variant of PrefixWalk: goto1 is pushed before goto2, so goto2 is popped first.
RECURSIVE PrefixWalk_Goto2First(_, _, _, _)
PrefixWalk_Goto2First(insts, stack, seen, self) ==
    IF stack = <<>> THEN self
    ELSE LET top == stack[Len(stack)]
             rest == SubSeq(stack, 1, Len(stack) - 1)
             seen1 == seen \cup {top}
             pc == skip(insts, top)
             inst == InstAt(insts, pc)
         IN  IF inst.op = "Split"
             THEN LET s1 == IF inst.goto1 \in seen1 THEN rest ELSE Append(rest, inst.goto1)
                      s2 == IF inst.goto2 \in seen1 THEN s1 ELSE Append(s1, inst.goto2)
                  IN  PrefixWalk_Goto2First(insts, s2, seen1, self)
             ELSE LET alts == BuildRequiredLiterals_literals(
                                  insts, BuildPrefixes_limit \div 10, pc)
                  IN  IF alts.literals = <<>> THEN AlternateLiterals_empty
                      ELSE IF num_bytes(self) + num_bytes(alts) > BuildPrefixes_limit
                      THEN AlternateLiterals_empty
                      ELSE PrefixWalk_Goto2First(insts, rest, seen1, add_alternates(self, alts))

\* BuildPrefixes::literals: the walk over the Split tree, stack top last.
RECURSIVE PrefixWalk(_, _, _, _)
PrefixWalk(insts, stack, seen, self) ==
    IF stack = <<>> THEN self
    ELSE LET top == stack[Len(stack)]
             rest == SubSeq(stack, 1, Len(stack) - 1)
             seen1 == seen \cup {top}
             pc == skip(insts, top)
             inst == InstAt(insts, pc)
         IN  IF inst.op = "Split"
             THEN LET s2 == IF inst.goto2 \in seen1 THEN rest ELSE Append(rest, inst.goto2)
                      s1 == IF inst.goto1 \in seen1 THEN s2 ELSE Append(s2, inst.goto1)
                  IN  PrefixWalk(insts, s1, seen1, self)
             ELSE LET alts == BuildRequiredLiterals_literals(
                                  insts, BuildPrefixes_limit \div 10, pc)
                  IN  IF alts.literals = <<>> THEN AlternateLiterals_empty
                      ELSE IF num_bytes(self) + num_bytes(alts) > BuildPrefixes_limit
                      THEN AlternateLiterals_empty
                      ELSE PrefixWalk(insts, rest, seen1, add_alternates(self, alts))

BuildPrefixes_literals(insts) ==
    PrefixWalk(insts, << skip(insts, 1) >>, {}, [at_match |-> TRUE, literals |-> <<>>])

\* The u8 arithmetic overflows in one of the runs of the required-literal
\* walker that BuildPrefixes::literals makes before it returns.
RECURSIVE PrefixWalkOverflows(_, _, _, _)
PrefixWalkOverflows(insts, stack, seen, self) ==
    IF stack = <<>> THEN FALSE
    ELSE LET top == stack[Len(stack)]
             rest == SubSeq(stack, 1, Len(stack) - 1)
             seen1 == seen \cup {top}
             pc == skip(insts, top)
             inst == InstAt(insts, pc)
         IN  IF inst.op = "Split"
             THEN LET s2 == IF inst.goto2 \in seen1 THEN rest ELSE Append(rest, inst.goto2)
                      s1 == IF inst.goto1 \in seen1 THEN s2 ELSE Append(s2, inst.goto1)
                  IN  PrefixWalkOverflows(insts, s1, seen1, self)
             ELSE LET alts == BuildRequiredLiterals_literals(
                                  insts, BuildPrefixes_limit \div 10, pc)
                  IN  \/ RequiredOverflows(insts, BuildPrefixes_limit \div 10,
                                           [at_match |-> TRUE, literals |-> << <<>> >>], pc)
                      \/ /\ alts.literals /= <<>>
                         /\ num_bytes(self) + num_bytes(alts) <= BuildPrefixes_limit
                         /\ PrefixWalkOverflows(insts, rest, seen1, add_alternates(self, alts))

\* The pcs at which BuildPrefixes::literals runs the required-literal walker,
\* in the order of the runs.
RECURSIVE PrefixWalkRuns(_, _, _, _)
PrefixWalkRuns(insts, stack, seen, self) ==
    IF stack = <<>> THEN <<>>
    ELSE LET top == stack[Len(stack)]
             rest == SubSeq(stack, 1, Len(stack) - 1)
             seen1 == seen \cup {top}
             pc == skip(insts, top)
             inst == InstAt(insts, pc)
         IN  IF inst.op = "Split"
             THEN LET s2 == IF inst.goto2 \in seen1 THEN rest ELSE Append(rest, inst.goto2)
                      s1 == IF inst.goto1 \in seen1 THEN s2 ELSE Append(s2, inst.goto1)
                  IN  PrefixWalkRuns(insts, s1, seen1, self)
             ELSE LET alts == BuildRequiredLiterals_literals(
                                  insts, BuildPrefixes_limit \div 10, pc)
                  IN  IF alts.literals = <<>> THEN << pc >>
                      ELSE IF num_bytes(self) + num_bytes(alts) > BuildPrefixes_limit
                      THEN << pc >>
                      ELSE << pc >> \o PrefixWalkRuns(insts, rest, seen1,
                                                      add_alternates(self, alts))

BuildPrefixes_runs(insts) ==
    PrefixWalkRuns(insts, << skip(insts, 1) >>, {}, [at_match |-> TRUE, literals |-> <<>>])

PrefixOverflows(insts) ==
    PrefixWalkOverflows(insts, << skip(insts, 1) >>, {}, [at_match |-> TRUE, literals |-> <<>>])

\* ------------------------------------------------------------------------
\* Prefix matcher (literals.rs). Literals is [at_match, matcher].

is_single_byte(alts) == Len(alts.literals) = 1 /\ Len(alts.literals[1]) = 1

all_single_bytes(alts) ==
    Len(alts.literals) >= 1 /\ \A i \in 1..Len(alts.literals) : Len(alts.literals[i]) = 1

is_one_literal(alts) == Len(alts.literals) = 1

\* Variant of ShiftFill: the table is filled for the last byte of the
\* pattern as well.
RECURSIVE ShiftFill_WholePattern(_, _, _)
ShiftFill_WholePattern(pat, shift, i) ==
    IF i >= Len(pat) THEN shift
    ELSE ShiftFill_WholePattern(pat, [shift EXCEPT ![pat[i + 1]] = Len(pat) - i - 1], i + 1)

\* SingleSearch::new: the shift table, filled for i in 0..pat.len() - 1.
RECURSIVE ShiftFill(_, _, _)
ShiftFill(pat, shift, i) ==
    IF i >= Len(pat) - 1 THEN shift
    ELSE ShiftFill(pat, [shift EXCEPT ![pat[i + 1]] = Len(pat) - i - 1], i + 1)

SingleSearch_new(pat) ==
    [pat |-> pat, shift |-> ShiftFill(pat, [b \in 0..255 |-> Len(pat)], 0)]

\* Variant of LiteralMatcher_new: the full automaton is built below 250 bytes
\* only.
LiteralMatcher_new_Below250(alts) ==
    IF alts.literals = <<>> THEN [kind |-> "Empty"]
    ELSE IF is_single_byte(alts) THEN [kind |-> "Byte", b |-> alts.literals[1][1]]
    ELSE IF all_single_bytes(alts)
    THEN [kind |-> "Bytes",
          chars |-> [i \in 1..Len(alts.literals) |-> alts.literals[i][1]],
          sparse |-> { alts.literals[i][1] : i \in 1..Len(alts.literals) }]
    ELSE IF is_one_literal(alts)
    THEN [kind |-> "Single", searcher |-> SingleSearch_new(alts.literals[1])]
    ELSE IF num_bytes(alts) < 250
    THEN [kind |-> "FullAutomaton", patterns |-> alts.literals]
    ELSE [kind |-> "Automaton", patterns |-> alts.literals]

\* LiteralMatcher::new
LiteralMatcher_new(alts) ==
    IF alts.literals = <<>> THEN [kind |-> "Empty"]
    ELSE IF is_single_byte(alts) THEN [kind |-> "Byte", b |-> alts.literals[1][1]]
    ELSE IF all_single_bytes(alts)
    THEN [kind |-> "Bytes",
          chars |-> [i \in 1..Len(alts.literals) |-> alts.literals[i][1]],
          sparse |-> { alts.literals[i][1] : i \in 1..Len(alts.literals) }]
    ELSE IF is_one_literal(alts)
    THEN [kind |-> "Single", searcher |-> SingleSearch_new(alts.literals[1])]
    ELSE IF num_bytes(alts) <= 250
    THEN [kind |-> "FullAutomaton", patterns |-> alts.literals]
    ELSE [kind |-> "Automaton", patterns |-> alts.literals]

Literals_empty == [at_match |-> FALSE, matcher |-> [kind |-> "Empty"]]

into_matcher(alts) ==
    IF alts.literals = <<>> THEN Literals_empty
    ELSE [at_match |-> alts.at_match, matcher |-> LiteralMatcher_new(alts)]

Literals_len(self) ==
    CASE self.matcher.kind = "Empty" -> 0
      [] self.matcher.kind = "Byte" -> 1
      [] self.matcher.kind = "Bytes" -> Len(self.matcher.chars)
      [] self.matcher.kind = "Single" -> 1
      [] OTHER -> Len(self.matcher.patterns)

Literals_is_empty(self) == Literals_len(self) = 0

\* Variant of preserves_priority: the automaton arms answer true as well.
preserves_priority_Always(self) == TRUE

\* Variant of preserves_priority: the automaton arms answer false.
preserves_priority_NoAutomaton(self) ==
    self.matcher.kind \notin {"FullAutomaton", "Automaton"}

preserves_priority(self) ==
    IF self.matcher.kind \in {"FullAutomaton", "Automaton"}
    THEN \A i \in 1..Len(self.matcher.patterns) :
            Len(self.matcher.patterns[i]) = Len(self.matcher.patterns[1])
    ELSE TRUE

\* haystack[from..], offsets from 0
Slice(haystack, from) == SubSeq(haystack, from + 1, Len(haystack))

\* memchr: offset of the first b in haystack, or None
memchr(b, haystack) ==
    IF \E i \in 1..Len(haystack) : haystack[i] = b
    THEN (CHOOSE i \in 1..Len(haystack) :
            haystack[i] = b /\ \A j \in 1..(i - 1) : haystack[j] /= b) - 1
    ELSE None

find_singles(sparse, haystack) ==
    IF \E i \in 1..Len(haystack) : haystack[i] \in sparse
    THEN LET hi == (CHOOSE i \in 1..Len(haystack) :
                      haystack[i] \in sparse /\ \A j \in 1..(i - 1) : haystack[j] \notin sparse) - 1
         IN  << hi, hi + 1 >>
    ELSE <<>>

\* Variant of SingleLoop: after a mismatch the window moves by the length of
\* the pattern, whatever the byte under its end.
RECURSIVE SingleLoop_SkipsPattern(_, _, _)
SingleLoop_SkipsPattern(self, haystack, i) ==
    LET pat == self.pat
        n == Len(pat)
    IN  IF ~(i <= Len(haystack) - n) THEN None
        ELSE LET b == haystack[i + n]
             IN  IF /\ b = pat[n]
                    /\ haystack[i + 1] = pat[1]
                    /\ haystack[i + (n \div 2) + 1] = pat[(n \div 2) + 1]
                    /\ pat = SubSeq(haystack, i + 1, i + n)
                 THEN i
                 ELSE LET i1 == i + n
                      IN  IF i1 > Len(haystack) THEN Fatal
                          ELSE LET j == memchr(pat[1], Slice(haystack, i1))
                               IN  IF j = None THEN None
                                   ELSE SingleLoop_SkipsPattern(self, haystack, i1 + j)

\* SingleSearch::find: the while loop from offset i. Fatal stands for a slice
\* beyond the haystack.
RECURSIVE SingleLoop(_, _, _)
SingleLoop(self, haystack, i) ==
    LET pat == self.pat
        n == Len(pat)
    IN  IF ~(i <= Len(haystack) - n) THEN None
        ELSE LET b == haystack[i + n]
             IN  IF /\ b = pat[n]
                    /\ haystack[i + 1] = pat[1]
                    /\ haystack[i + (n \div 2) + 1] = pat[(n \div 2) + 1]
                    /\ pat = SubSeq(haystack, i + 1, i + n)
                 THEN i
                 ELSE LET i1 == i + self.shift[b]
                      IN  IF i1 > Len(haystack) THEN Fatal
                          ELSE LET j == memchr(pat[1], Slice(haystack, i1))
                               IN  IF j = None THEN None
                                   ELSE SingleLoop(self, haystack, i1 + j)

SingleSearch_find(self, haystack) ==
    IF Len(haystack) < Len(self.pat) THEN None
    ELSE LET i == memchr(self.pat[1], haystack)
         IN  IF i = None THEN None ELSE SingleLoop(self, haystack, i)

\* Automaton::find(haystack).next() of the Aho-Corasick automaton: the scan
\* stops at the first offset at which some pattern ends and reports the first
\* output of that state, the longest pattern ending there.
EndsAt(pat, haystack, e) ==
    Len(pat) <= e /\ SubSeq(haystack, e - Len(pat) + 1, e) = pat

Automaton_find(patterns, haystack) ==
    LET Hit(e) == \E i \in 1..Len(patterns) : EndsAt(patterns[i], haystack, e)
    IN  IF \E e \in 1..Len(haystack) : Hit(e)
        THEN LET e == CHOOSE e \in 1..Len(haystack) : Hit(e) /\ \A f \in 1..(e - 1) : ~Hit(f)
                 i == CHOOSE i \in 1..Len(patterns) :
                        /\ EndsAt(patterns[i], haystack, e)
                        /\ \A j \in 1..Len(patterns) :
                              EndsAt(patterns[j], haystack, e)
                                  => Len(patterns[j]) <= Len(patterns[i])
             IN  << e - Len(patterns[i]), e >>
        ELSE <<>>

\* Literals::find: <<>> for None, <<s, e>> for Some((s, e)).
Literals_find(self, haystack) ==
    LET m == self.matcher
    IN  CASE m.kind = "Empty" -> << 0, 0 >>
          [] m.kind = "Byte" ->
                LET i == memchr(m.b, haystack)
                IN  IF i = None THEN <<>> ELSE << i, i + 1 >>
          [] m.kind = "Bytes" ->
                find_singles(m.sparse, haystack)
          [] m.kind = "Single" ->
                LET i == SingleSearch_find(m.searcher, haystack)
                IN  IF i = None THEN <<>>
                    ELSE IF i = Fatal THEN << Fatal, Fatal >>
                    ELSE << i, i + Len(m.searcher.pat) >>
          [] OTHER -> Automaton_find(m.patterns, haystack)

\* Program::new: prefixes, computed once per program.
PrefixesOf == [p \in Programs |-> into_matcher(BuildPrefixes_literals(prog_insts(p)))]

prefixes(p) == PrefixesOf[p]

is_prefix_match(p) == prefixes(p).at_match /\ preserves_priority(prefixes(p))

\* ------------------------------------------------------------------------
\* The state of one exec call as the engines see it:
\*   caps    the caller's capture vector (borrowed mutably by the engine)
\*   phase   the control point of the call
\*   result  "none" while running, then "true", "false" or "panic"
\*   bt      BackMachine { jobs, visited } and the locals of Backtrack
\*           (at: position of the outer loop, pc/sat: pc and at of step)
\*   nfa     NfaThreads { clist, nlist } and the locals of Nfa::exec_
\*   cur     the greatest offset a cursor was built for or the input read at

Max(a, b) == IF a > b THEN a ELSE b
Min(a, b) == IF a < b THEN a ELSE b

\* The engine returns r; its locals die.
Return(s, r) ==
    [s EXCEPT !.phase = "done", !.result = r,
              !.bt.at = 0, !.bt.pc = 0, !.bt.sat = 0,
              !.nfa.at = 0, !.nfa.matched = FALSE, !.nfa.i = 0]

\* ------------------------------------------------------------------------
\* Backtracker (backtrack.rs).

\* Variant of should_exec: the program size is not looked at.
should_exec_InputOnly(p, text) == Len(text) <= MAX_INPUT_SIZE

should_exec(p, text) == Len(prog_insts(p)) <= MAX_PROG_SIZE /\ Len(text) <= MAX_INPUT_SIZE

Job_Inst(pc, at) == [kind |-> "Inst", pc |-> pc, at |-> at]
Job_SaveRestore(slot, old_pos) == [kind |-> "SaveRestore", slot |-> slot, old_pos |-> old_pos]

\* Variant of Backtrack_clear: the words kept from the last call are not zeroed.
Backtrack_clear_KeepBits(p, text, m) ==
    LET visited_len == (Len(prog_insts(p)) * (Len(text) + 1) + BIT_SIZE - 1) \div BIT_SIZE
        truncated == SubSeq(m.visited, 1, Min(visited_len, Len(m.visited)))
        grown == truncated \o [i \in 1..(visited_len - Len(truncated)) |-> {}]
    IN  [m EXCEPT !.jobs = <<>>, !.visited = grown]

\* A word of the visited bitmap is the set of its bits that are 1.
Backtrack_clear(p, text, m) ==
    LET visited_len == (Len(prog_insts(p)) * (Len(text) + 1) + BIT_SIZE - 1) \div BIT_SIZE
        truncated == SubSeq(m.visited, 1, Min(visited_len, Len(m.visited)))
        zeroed == [i \in 1..Len(truncated) |-> {}]
        grown == zeroed \o [i \in 1..(visited_len - Len(zeroed)) |-> {}]
    IN  [m EXCEPT !.jobs = <<>>, !.visited = grown]

\* Variant of Backtrack_exec: the search begins at offset 0, not at start.
Backtrack_exec_FromZero(p, text, start, s) ==
    LET s1 == [s EXCEPT !.bt = Backtrack_clear(p, text, @), !.cur = Max(@, start)]
    IN  IF ~Input_at_ok(p.bytes, text, start) THEN Return(s, "panic")
        ELSE IF anchored_begin(prog_insts(p)) /\ start /= 0 THEN Return(s1, "false")
        ELSE [s1 EXCEPT !.phase = "bt_backtrack", !.bt.at = 0]

\* Backtrack::exec and the head of exec_: the cursor for start, clear, and the
\* anchored_begin test.
Backtrack_exec(p, text, start, s) ==
    LET s1 == [s EXCEPT !.bt = Backtrack_clear(p, text, @), !.cur = Max(@, start)]
    IN  IF ~Input_at_ok(p.bytes, text, start) THEN Return(s, "panic")
        ELSE IF anchored_begin(prog_insts(p)) /\ start /= 0 THEN Return(s1, "false")
        ELSE [s1 EXCEPT !.phase = "bt_backtrack", !.bt.at = start]

\* backtrack(start): push(0, start), then the job loop.
Backtrack_backtrack(p, text, s) ==
    [s EXCEPT !.phase = "bt_pop", !.bt.jobs = Append(@, Job_Inst(0, s.bt.at))]

\* Variant of Backtrack_pop: a SaveRestore job is dropped without restoring.
Backtrack_pop_NoRestore(p, text, s) ==
    IF s.bt.jobs = <<>> THEN [s EXCEPT !.phase = "bt_failed"]
    ELSE LET job == s.bt.jobs[Len(s.bt.jobs)]
             s1 == [s EXCEPT !.bt.jobs = SubSeq(@, 1, Len(@) - 1)]
         IN  IF job.kind = "Inst"
             THEN [s1 EXCEPT !.phase = "bt_step", !.bt.pc = job.pc, !.bt.sat = job.at]
             ELSE s1

\* One turn of `while let Some(job) = self.m.jobs.pop()`.
Backtrack_pop(p, text, s) ==
    IF s.bt.jobs = <<>> THEN [s EXCEPT !.phase = "bt_failed"]
    ELSE LET job == s.bt.jobs[Len(s.bt.jobs)]
             s1 == [s EXCEPT !.bt.jobs = SubSeq(@, 1, Len(@) - 1)]
         IN  IF job.kind = "Inst"
             THEN [s1 EXCEPT !.phase = "bt_step", !.bt.pc = job.pc, !.bt.sat = job.at]
             ELSE [s1 EXCEPT !.caps[job.slot + 1] = job.old_pos]

\* Variant of Backtrack_retry: no later start offset is tried.
Backtrack_retry_Once(p, text, s) == Return(s, "false")

\* exec_ after backtrack(at) returned false.
Backtrack_retry(p, text, s) ==
    IF s.bt.at >= Len(text) THEN Return(s, "false")
    ELSE [s EXCEPT !.phase = "bt_backtrack", !.bt.at = @ + 1]

\* Variant of has_visited: the bitmap is neither read nor written.
has_visited_NoBitmap(p, text, s, pc, at) == [s EXCEPT !.bt.pc = pc]

\* Variant of has_visited: the rows of the bitmap are input.len wide.
has_visited_ShortStride(p, text, s, pc, at) ==
    LET k == pc * Len(text) + at
        k1 == k \div BIT_SIZE
        k2 == k % BIT_SIZE
    IN  IF k1 >= Len(s.bt.visited) THEN Return(s, "panic")
        ELSE IF k2 \in s.bt.visited[k1 + 1]
        THEN [s EXCEPT !.phase = "bt_pop"]
        ELSE [s EXCEPT !.bt.visited[k1 + 1] = @ \cup {k2}, !.bt.pc = pc]

\* has_visited(pc, at) at the end of a turn of step's loop: return false if
\* the bit is set, else set it and go on at pc.
has_visited(p, text, s, pc, at) ==
    LET k == pc * (Len(text) + 1) + at
        k1 == k \div BIT_SIZE
        k2 == k % BIT_SIZE
    IN  IF k1 >= Len(s.bt.visited) THEN Return(s, "panic")
        ELSE IF k2 \in s.bt.visited[k1 + 1]
        THEN [s EXCEPT !.phase = "bt_pop"]
        ELSE [s EXCEPT !.bt.visited[k1 + 1] = @ \cup {k2}, !.bt.pc = pc]

\* Variant of Backtrack_Save: a slot beyond the caller's vector ends the path.
Backtrack_Save_DropsPath(p, text, s, inst) ==
    LET at == s.bt.sat
    IN  IF inst.slot < Len(s.caps)
        THEN has_visited(p, text,
                 [s EXCEPT !.bt.jobs = Append(@, Job_SaveRestore(inst.slot, s.caps[inst.slot + 1])),
                           !.caps[inst.slot + 1] = at],
                 inst.goto, at)
        ELSE [s EXCEPT !.phase = "bt_pop"]

\* Variant of Backtrack_Save: the slot is set and no SaveRestore job is pushed.
Backtrack_Save_NoJob(p, text, s, inst) ==
    LET at == s.bt.sat
        s1 == IF inst.slot < Len(s.caps) THEN [s EXCEPT !.caps[inst.slot + 1] = at] ELSE s
    IN  has_visited(p, text, s1, inst.goto, at)

Backtrack_Save(p, text, s, inst) ==
    LET at == s.bt.sat
        s1 == IF inst.slot < Len(s.caps)
              THEN [s EXCEPT !.bt.jobs = Append(@, Job_SaveRestore(inst.slot, s.caps[inst.slot + 1])),
                             !.caps[inst.slot + 1] = at]
              ELSE s
    IN  has_visited(p, text, s1, inst.goto, at)

\* Variant of Backtrack_Split: goto1 is pushed and goto2 is followed first.
Backtrack_Split_Swapped(p, text, s, inst) ==
    has_visited(p, text,
                [s EXCEPT !.bt.jobs = Append(@, Job_Inst(inst.goto1, s.bt.sat))],
                inst.goto2, s.bt.sat)

Backtrack_Split(p, text, s, inst) ==
    has_visited(p, text,
                [s EXCEPT !.bt.jobs = Append(@, Job_Inst(inst.goto2, s.bt.sat))],
                inst.goto1, s.bt.sat)

\* previous_char and next_char of a CharInput slice the str at `at`: fatal
\* inside a character.
Backtrack_EmptyLook(p, text, s, inst) ==
    LET at == s.bt.sat
        prev == previous_char(text, at)
        next == next_char(text, at)
    IN  IF ~Input_at_ok(p.bytes, text, at) THEN Return(s, "panic")
        ELSE IF InstEmptyLook_matches(inst, prev, next)
        THEN has_visited(p, text, s, inst.goto, at)
        ELSE [s EXCEPT !.phase = "bt_pop"]

\* self.input.get(at): the byte at `at`, if any; on a match the loop goes on
\* with `continue`.
Backtrack_Bytes(p, text, s, inst) ==
    LET at == s.bt.sat
    IN  IF at < Len(text) /\ inst.start <= text[at + 1] /\ text[at + 1] <= inst.end
        THEN [s EXCEPT !.bt.pc = inst.goto, !.bt.sat = at + 1, !.cur = Max(@, at)]
        ELSE [s EXCEPT !.phase = "bt_pop", !.cur = Max(@, at)]

\* One turn of the loop of step(pc, at). The match has no arm for Char and
\* Ranges: a program that holds them cannot be run by this engine.
Backtrack_step(p, text, s) ==
    LET inst == InstAt(prog_insts(p), s.bt.pc)
    IN  CASE inst.op = "Match" -> Return(s, "true")
          [] inst.op = "Save" -> Backtrack_Save(p, text, s, inst)
          [] inst.op = "Split" -> Backtrack_Split(p, text, s, inst)
          [] inst.op = "EmptyLook" -> Backtrack_EmptyLook(p, text, s, inst)
          [] inst.op = "Bytes" -> Backtrack_Bytes(p, text, s, inst)
          [] OTHER -> Return(s, "panic")

\* ------------------------------------------------------------------------
\* NFA simulation (nfa.rs). Threads is [dense, sparse, size]; a Thread is
\* [pc, caps].

Threads_new == [dense |-> <<>>, sparse |-> <<>>, size |-> 0]

Threads_resize(self, num_insts, ncaps) ==
    LET old_slots == IF Len(self.dense) > 0 THEN Len(self.dense[1].caps) ELSE 0
        new_slots == ncaps * 2
        t == [pc |-> 0, caps |-> [i \in 1..(ncaps * 2) |-> None]]
    IN  IF num_insts /= Len(self.dense) \/ old_slots /= new_slots
        THEN [dense |-> [i \in 1..num_insts |-> t],
              sparse |-> [i \in 1..num_insts |-> 0],
              size |-> 0]
        ELSE self

Threads_add(self, pc) ==
    [self EXCEPT !.dense[self.size + 1].pc = pc,
                 !.sparse[pc + 1] = self.size,
                 !.size = self.size + 1]

\* Variant of Threads_contains: the entry of dense is not compared with pc.
Threads_contains_SparseOnly(self, pc) == self.sparse[pc + 1] < self.size

Threads_contains(self, pc) ==
    LET sp == self.sparse[pc + 1]
    IN  sp < self.size /\ self.dense[sp + 1].pc = pc

Threads_clear(self) == [self EXCEPT !.size = 0]

\* for (slot, val) in dst.iter_mut().zip(src.iter()) { *slot = *val }
ZipCopy(dst, src) == [i \in 1..Len(dst) |-> IF i <= Len(src) THEN src[i] ELSE dst[i]]

\* Nfa::add, the epsilon closure. The result is [list, caps]: the thread list
\* and the capture array the call was given, as the call leaves them.
RECURSIVE Nfa_add(_, _, _, _, _, _)
RECURSIVE Nfa_add_Save(_, _, _, _, _, _)
RECURSIVE Nfa_add_Split(_, _, _, _, _, _)

Nfa_add_EmptyLook(p, text, nlist, thread_caps, inst, at) ==
    IF InstEmptyLook_matches(inst, previous_char(text, at), next_char(text, at))
    THEN Nfa_add(p, text, nlist, thread_caps, inst.goto, at)
    ELSE [list |-> nlist, caps |-> thread_caps]

\* Variant of Nfa_add_Save: the slot keeps the position after the call.
Nfa_add_Save_NoRestore(p, text, nlist, thread_caps, inst, at) ==
    IF inst.slot >= Len(thread_caps)
    THEN Nfa_add(p, text, nlist, thread_caps, inst.goto, at)
    ELSE Nfa_add(p, text, nlist, [thread_caps EXCEPT ![inst.slot + 1] = at], inst.goto, at)

Nfa_add_Save(p, text, nlist, thread_caps, inst, at) ==
    IF inst.slot >= Len(thread_caps)
    THEN Nfa_add(p, text, nlist, thread_caps, inst.goto, at)
    ELSE LET old == thread_caps[inst.slot + 1]
             r == Nfa_add(p, text, nlist, [thread_caps EXCEPT ![inst.slot + 1] = at],
                          inst.goto, at)
         IN  [list |-> r.list, caps |-> [r.caps EXCEPT ![inst.slot + 1] = old]]

Nfa_add_Split(p, text, nlist, thread_caps, inst, at) ==
    LET r1 == Nfa_add(p, text, nlist, thread_caps, inst.goto1, at)
    IN  Nfa_add(p, text, r1.list, r1.caps, inst.goto2, at)

\* Match | Char | Ranges | Bytes: the thread ti keeps a copy of the captures.
Nfa_add_park(nlist, thread_caps, ti) ==
    [list |-> [nlist EXCEPT !.dense[ti + 1].caps = ZipCopy(@, thread_caps)],
     caps |-> thread_caps]

Nfa_add(p, text, nlist, thread_caps, pc, at) ==
    IF Threads_contains(nlist, pc) THEN [list |-> nlist, caps |-> thread_caps]
    ELSE LET ti == nlist.size
             l1 == Threads_add(nlist, pc)
             inst == InstAt(prog_insts(p), pc)
         IN  CASE inst.op = "EmptyLook" -> Nfa_add_EmptyLook(p, text, l1, thread_caps, inst, at)
               [] inst.op = "Save" -> Nfa_add_Save(p, text, l1, thread_caps, inst, at)
               [] inst.op = "Split" -> Nfa_add_Split(p, text, l1, thread_caps, inst, at)
               [] OTHER -> Nfa_add_park(l1, thread_caps, ti)

\* Nfa::step for one thread: [matched, fatal, nlist, caps, thread_caps].
\* at.char() of a byte cursor and at.byte() of a character cursor are fatal.
Nfa_step(p, text, nlist, caps, thread_caps, pc, at, at_next) ==
    LET inst == InstAt(prog_insts(p), pc)
        stay == [matched |-> FALSE, fatal |-> FALSE, nlist |-> nlist, caps |-> caps,
                 thread_caps |-> thread_caps]
        added == LET r == Nfa_add(p, text, nlist, thread_caps, inst.goto, at_next)
                 IN  [stay EXCEPT !.nlist = r.list, !.thread_caps = r.caps]
    IN  CASE inst.op = "Match" ->
                [stay EXCEPT !.matched = TRUE, !.caps = ZipCopy(caps, thread_caps)]
          [] inst.op = "Char" ->
                IF p.bytes THEN [stay EXCEPT !.fatal = TRUE]
                ELSE IF inst.c = at.c THEN added ELSE stay
          [] inst.op = "Ranges" ->
                IF p.bytes THEN [stay EXCEPT !.fatal = TRUE]
                ELSE IF InstRanges_matches(inst, at.c) THEN added ELSE stay
          [] inst.op = "Bytes" ->
                IF ~p.bytes THEN [stay EXCEPT !.fatal = TRUE]
                ELSE IF at.byte /= None /\ InstBytes_matches(inst, at.byte) THEN added ELSE stay
          [] OTHER -> stay

Bool(b) == IF b THEN "true" ELSE "false"

\* Nfa::exec and the head of exec_: resize the cached lists, build the cursor
\* for start, clear both lists.
Nfa_exec(p, text, start, s) ==
    LET n == Len(prog_insts(p))
        k == num_captures(prog_insts(p))
        clist == Threads_clear(Threads_resize(s.nfa.clist, n, k))
        nlist == Threads_clear(Threads_resize(s.nfa.nlist, n, k))
    IN  IF ~Input_at_ok(p.bytes, text, start) THEN Return(s, "panic")
        ELSE [s EXCEPT !.phase = "nfa_loop", !.cur = Max(@, start),
                       !.nfa = [clist |-> clist, nlist |-> nlist, at |-> start,
                                matched |-> FALSE, i |-> 0]]

\* CharInput::prefix_at: <<>> for None, else <<pos>>; ByteInput::prefix_at is
\* unimplemented (fatal).
prefix_at(p, text, at) ==
    IF p.bytes THEN << Fatal >>
    ELSE LET r == Literals_find(prefixes(p), Slice(text, at))
         IN  IF r = <<>> THEN <<>>
             ELSE IF r[1] = Fatal \/ ~CharInput_at_ok(text, at + r[1]) THEN << Fatal >>
             ELSE << at + r[1] >>

\* Variant of Nfa_start_threads: the thread for pc 0 is added while no match
\* is found, whether or not the program is anchored at the beginning.
Nfa_start_threads_IgnoresAnchor(p, text, s, at) ==
    LET q == s.nfa
        spawn == q.clist.size = 0 \/ ~q.matched
        r == IF spawn THEN Nfa_add(p, text, q.clist, s.caps, 0, at)
             ELSE [list |-> q.clist, caps |-> s.caps]
        at_next == next_pos(Input_at(p.bytes, text, at))
    IN  IF ~Input_at_ok(p.bytes, text, at_next) THEN Return(s, "panic")
        ELSE [s EXCEPT !.phase = "nfa_step", !.caps = r.caps, !.cur = Max(Max(@, at), at_next),
                       !.nfa.clist = r.list, !.nfa.at = at, !.nfa.i = 0]

\* The loop of exec_ from its head to the start of the thread loop, with the
\* cursor at position at: add the thread for pc 0 and build at_next.
Nfa_start_threads(p, text, s, at) ==
    LET q == s.nfa
        spawn == q.clist.size = 0 \/ (~anchored_begin(prog_insts(p)) /\ ~q.matched)
        r == IF spawn THEN Nfa_add(p, text, q.clist, s.caps, 0, at)
             ELSE [list |-> q.clist, caps |-> s.caps]
        at_next == next_pos(Input_at(p.bytes, text, at))
    IN  IF ~Input_at_ok(p.bytes, text, at_next) THEN Return(s, "panic")
        ELSE [s EXCEPT !.phase = "nfa_step", !.caps = r.caps, !.cur = Max(Max(@, at), at_next),
                       !.nfa.clist = r.list, !.nfa.at = at, !.nfa.i = 0]

Nfa_loop(p, text, s) ==
    LET q == s.nfa
    IN  IF q.clist.size = 0
        THEN IF q.matched \/ (q.at /= 0 /\ anchored_begin(prog_insts(p)))
             THEN Return(s, Bool(q.matched))
             ELSE IF ~Literals_is_empty(prefixes(p))
             THEN LET r == prefix_at(p, text, q.at)
                  IN  IF r = <<>> THEN Return(s, Bool(q.matched))
                      ELSE IF r[1] = Fatal THEN Return(s, "panic")
                      ELSE Nfa_start_threads(p, text, s, r[1])
             ELSE Nfa_start_threads(p, text, s, q.at)
        ELSE Nfa_start_threads(p, text, s, q.at)

\* Variant of Nfa_thread: after a match the thread loop goes on with the
\* threads that remain in clist.
Nfa_thread_KeepsStepping(p, text, s) ==
    LET q == s.nfa
        at == Input_at(p.bytes, text, q.at)
        t == q.clist.dense[q.i + 1]
        r == Nfa_step(p, text, q.nlist, s.caps, t.caps, t.pc, at, next_pos(at))
        s1 == [s EXCEPT !.caps = r.caps, !.nfa.nlist = r.nlist,
                        !.nfa.clist.dense[q.i + 1].caps = r.thread_caps,
                        !.nfa.matched = @ \/ r.matched]
    IN  IF r.fatal THEN Return(s, "panic")
        ELSE IF r.matched /\ Len(s.caps) = 0 THEN Return(s1, "true")
        ELSE IF q.i + 1 < q.clist.size THEN [s1 EXCEPT !.nfa.i = q.i + 1]
        ELSE [s1 EXCEPT !.phase = "nfa_advance"]

\* One turn of `for i in 0..q.clist.size`.
Nfa_thread(p, text, s) ==
    LET q == s.nfa
        at == Input_at(p.bytes, text, q.at)
        t == q.clist.dense[q.i + 1]
        r == Nfa_step(p, text, q.nlist, s.caps, t.caps, t.pc, at, next_pos(at))
        s1 == [s EXCEPT !.caps = r.caps, !.nfa.nlist = r.nlist,
                        !.nfa.clist.dense[q.i + 1].caps = r.thread_caps]
    IN  IF r.fatal THEN Return(s, "panic")
        ELSE IF r.matched
        THEN IF Len(s.caps) = 0 THEN Return(s1, "true")
             ELSE [s1 EXCEPT !.phase = "nfa_advance", !.nfa.matched = TRUE]
        ELSE IF q.i + 1 < q.clist.size THEN [s1 EXCEPT !.nfa.i = q.i + 1]
        ELSE [s1 EXCEPT !.phase = "nfa_advance"]

\* The tail of the loop: at.is_end(), at = at_next, swap, nlist.clear().
Nfa_advance(p, text, s) ==
    LET q == s.nfa
        at == Input_at(p.bytes, text, q.at)
    IN  IF is_end(text, at) THEN Return(s, Bool(q.matched))
        ELSE [s EXCEPT !.phase = "nfa_loop", !.nfa.at = next_pos(at), !.nfa.i = 0,
                       !.nfa.clist = q.nlist, !.nfa.nlist = Threads_clear(q.clist)]

\* ------------------------------------------------------------------------
\* Dispatcher (program.rs, exec.rs).

\* Program::exec_input, MatchEngine::Literals
Literals_exec(p, text, start, s) ==
    LET r == Literals_find(prefixes(p), Slice(text, start))
    IN  IF r = <<>> THEN Return(s, "false")
        ELSE IF r[1] = Fatal THEN Return(s, "panic")
        ELSE Return([s EXCEPT !.caps = IF Len(@) = 2 THEN << start + r[1], start + r[2] >> ELSE @],
                    "true")

\* Variant of choose_engine: the backtracker is preferred to the literals.
choose_engine_BacktrackFirst(p, engine, cap_len, text) ==
    IF engine /= "None" THEN engine
    ELSE IF should_exec(p, text) THEN "Backtrack"
    ELSE IF cap_len <= 2 /\ prefixes(p).at_match /\ preserves_priority(prefixes(p))
    THEN "Literals"
    ELSE "Nfa"

\* Program::choose_engine; engine is "None" or the engine set in the Program.
choose_engine(p, engine, cap_len, text) ==
    IF engine /= "None" THEN engine
    ELSE IF cap_len <= 2 /\ prefixes(p).at_match /\ preserves_priority(prefixes(p))
    THEN "Literals"
    ELSE IF should_exec(p, text) THEN "Backtrack"
    ELSE "Nfa"

can_exec_literals(p, cap_len) == cap_len <= 2 /\ is_prefix_match(p)

\* Executor::exec_auto and exec_literals call each other; the value is the
\* engine that runs in the end.
RECURSIVE exec_auto(_, _, _)
RECURSIVE exec_literals(_, _, _)
exec_auto(p, cap_len, text) ==
    IF can_exec_literals(p, cap_len) THEN exec_literals(p, cap_len, text)
    ELSE IF should_exec(p, text) THEN "Backtrack"
    ELSE "Nfa"

exec_literals(p, cap_len, text) ==
    IF ~can_exec_literals(p, cap_len) THEN exec_auto(p, cap_len, text)
    ELSE "Literals"

\* Executor::exec
Executor_exec(p, match_engine, cap_len, text) ==
    CASE match_engine = "Nfa" -> "Nfa"
      [] match_engine = "Backtrack" -> "Backtrack"
      [] match_engine = "Literals" -> exec_literals(p, cap_len, text)
      [] OTHER -> exec_auto(p, cap_len, text)

\* ------------------------------------------------------------------------
\* The state machine: exec calls on one Program.

VARIABLES
    prog,     \* the Program, [name, bytes]
    call,     \* arguments of the current call: text, start, caps0 (the capture
              \* vector on entry), and until the engine is entered the
              \* dispatcher (disp) with its engine override or preference (pref);
              \* dirty and words record what the caches held on entry
    caps,     \* the caller's capture vector
    engine,   \* the engine chosen for the current call
    phase,    \* control point: "idle", "dispatch", "enter", an engine's
              \* control point, "done"
    result,   \* result of the current call
    bt,       \* backtracker cache and locals
    nfa,      \* NFA cache and locals
    cur,      \* greatest offset used as an input position in this call
    calls,    \* number of calls started
    steps,    \* number of steps the engine has taken in this call
    visits,   \* history of the current backtrack(start): the (pc, at) at which
              \* step has executed an instruction, whether one was executed
              \* twice, the number of entries into step, for each job on the
              \* stack the capture vector at the time it was pushed, and the
              \* (pc, at) whose bit has_visited has set in this call
    pool,     \* the Program's pools of caches and the threads calling exec
    lit,      \* a prefix matcher under construction: the instructions or the
              \* alternates it is built from, the matcher, and a search
    app       \* one application of a function of inst.rs: its name, its
              \* arguments, whether it has returned and what it returned

vars == << prog, call, caps, engine, phase, result, bt, nfa, cur, calls, steps, visits, pool, lit, app >>

BackMachine_new == [jobs |-> <<>>, visited |-> <<>>, at |-> 0, pc |-> 0, sat |-> 0]

NfaThreads_new ==
    [clist |-> Threads_new, nlist |-> Threads_new, at |-> 0, matched |-> FALSE, i |-> 0]

\* Capture vectors a caller passes: none, the match only, or all groups.
CapLens(p) == {0, 2, 2 * num_captures(prog_insts(p))}

\* Program { engine } and Executor { match_engine }
Overrides ==
    [disp : {"Program"}, pref : {"None", "Backtrack", "Nfa", "Literals"}]
    \cup [disp : {"Executor"}, pref : {"Automatic", "Backtrack", "Nfa", "Literals"}]

NoCall ==
    [text |-> <<>>, start |-> 0, caps0 |-> <<>>, disp |-> "-", pref |-> "-",
     dirty |-> FALSE, words |-> 0]

\* No prefix matcher under construction.
NoLit ==
    [stage |-> "none", insts |-> << >>, alts |-> AlternateLiterals_empty,
     m |-> Literals_empty, haystack |-> << >>, hit |-> << >>, checked |-> FALSE]

NoApp == [fn |-> "none", arg |-> << >>, done |-> FALSE, ret |-> FALSE]

\* No instruction executed and no entry into step yet.
NoVisits == [seen |-> {}, again |-> FALSE, entries |-> 0, pushed |-> << >>, marked |-> {}]

\* visits.pushed after a step of the backtracker: the entries of the jobs
\* that are left, and the current capture vector for each job pushed.
PushedAfter(old) ==
    LET n == Len(bt'.jobs)
    IN  IF n <= Len(old) THEN SubSeq(old, 1, n)
        ELSE old \o [i \in 1..(n - Len(old)) |-> caps]

\* The threads that share the Program, and its two pools (prog.backtrack and
\* prog.nfa_threads), named by the engine they serve.
PoolThreads == 1..MaxThreads
PoolKinds == {"Backtrack", "Nfa"}

ThreadIdle == [pc |-> "idle", engine |-> "none", text |-> << >>, buf |-> None, out |-> "none"]

\* Pool::new for nfa_threads and backtrack: no cache made yet, every thread
\* outside exec. A cache is named by the order of its creation.
PoolInit ==
    [free |-> [k \in PoolKinds |-> [t \in PoolThreads |-> << >>]],
     made |-> 0,
     th |-> [t \in PoolThreads |-> ThreadIdle]]

\* Pool::get for the calling thread: the cache it returned last, or a new one
\* from the create function.
Pool_get(stack, made) ==
    IF stack = << >>
    THEN [value |-> made + 1, stack |-> << >>, made |-> made + 1]
    ELSE [value |-> stack[Len(stack)], stack |-> SubSeq(stack, 1, Len(stack) - 1),
          made |-> made]

\* Variant of PoolGuard_drop: a guard dropped while unwinding keeps its cache.
PoolGuard_drop_LeaksOnUnwind(stack, value, out) ==
    IF out = "panic" THEN stack ELSE Append(stack, value)

\* Drop of the guard, on return (out "true" or "false") and on unwinding (out
\* "panic") alike: the cache goes back to the calling thread's stack.
PoolGuard_drop(stack, value, out) == Append(stack, value)

InitFor(progs) ==
    /\ prog \in progs
    /\ call = NoCall
    /\ caps \in { [i \in 1..n |-> None] : n \in CapLens(prog) }
    /\ engine = "none"
    /\ phase = "idle"
    /\ result = "none"
    /\ bt = BackMachine_new
    /\ nfa = NfaThreads_new
    /\ cur = 0
    /\ calls = 0
    /\ steps = 0
    /\ visits = NoVisits
    /\ pool = PoolInit
    /\ lit = NoLit
    /\ app = NoApp

Init == InitFor(Programs)

ES == [caps |-> caps, phase |-> phase, result |-> result, bt |-> bt, nfa |-> nfa, cur |-> cur]

Apply(s) ==
    /\ caps' = s.caps
    /\ phase' = s.phase
    /\ result' = s.result
    /\ bt' = s.bt
    /\ nfa' = s.nfa
    /\ cur' = s.cur
    /\ steps' = steps + 1

\* The caches hold what an earlier call left: jobs on the stack and bits in
\* the bitmap, or threads in the lists.
CachesDirty ==
    \/ bt.jobs /= <<>> /\ \E i \in 1..Len(bt.visited) : bt.visited[i] /= {}
    \/ Len(nfa.clist.dense) > 0

\* Program::exec(caps, text, start) or Executor::exec(caps, text, start) is
\* called; start is an offset of text (a character boundary of a str).
CallWith(texts, overrides) ==
    /\ phase \in {"idle", "done"}
    /\ \E text \in texts, o \in overrides :
         \E start \in 0..Len(text) :
            /\ IsCharBoundary(text, start)
            /\ call' = [text |-> text, start |-> start, caps0 |-> caps,
                        disp |-> o.disp, pref |-> o.pref,
                        dirty |-> CachesDirty, words |-> Len(bt.visited)]
    /\ phase' = "dispatch"
    /\ engine' = "none"
    /\ result' = "none"
    /\ cur' = 0
    /\ calls' = calls + 1
    /\ steps' = 0
    /\ visits' = NoVisits
    /\ UNCHANGED << prog, caps, bt, nfa, pool, lit, app >>

Call == calls = 0 /\ CallWith(Texts, Overrides)

\* choose_engine / Executor::exec pick the engine.
Dispatch ==
    /\ phase = "dispatch"
    /\ engine' = IF call.disp = "Program"
                 THEN choose_engine(prog, call.pref, Len(caps), call.text)
                 ELSE Executor_exec(prog, call.pref, Len(caps), call.text)
    /\ phase' = "enter"
    /\ UNCHANGED << prog, call, caps, result, bt, nfa, cur, calls, steps, visits, pool, lit, app >>

Entered == call' = [call EXCEPT !.disp = "-", !.pref = "-"]

BacktrackExec ==
    /\ phase = "enter" /\ engine = "Backtrack"
    /\ Apply(Backtrack_exec(prog, call.text, call.start, ES))
    /\ Entered
    /\ UNCHANGED << prog, engine, calls, visits, pool, lit, app >>

NfaExec ==
    /\ phase = "enter" /\ engine = "Nfa"
    /\ Apply(Nfa_exec(prog, call.text, call.start, ES))
    /\ Entered
    /\ UNCHANGED << prog, engine, calls, visits, pool, lit, app >>

LiteralsExec ==
    /\ phase = "enter" /\ engine = "Literals"
    /\ Apply(Literals_exec(prog, call.text, call.start, ES))
    /\ Entered
    /\ UNCHANGED << prog, engine, calls, visits, pool, lit, app >>

BacktrackBacktrack ==
    /\ phase = "bt_backtrack"
    /\ Apply(Backtrack_backtrack(prog, call.text, ES))
    /\ visits' = [NoVisits EXCEPT !.pushed = PushedAfter(<< >>), !.marked = visits.marked]
    /\ UNCHANGED << prog, call, engine, calls, pool, lit, app >>

BacktrackPop ==
    /\ phase = "bt_pop"
    /\ Apply(Backtrack_pop(prog, call.text, ES))
    /\ visits' = IF bt.jobs /= <<>> /\ bt.jobs[Len(bt.jobs)].kind = "Inst"
                  THEN [visits EXCEPT !.entries = @ + 1, !.pushed = PushedAfter(@)]
                  ELSE [visits EXCEPT !.pushed = PushedAfter(@)]
    /\ UNCHANGED << prog, call, engine, calls, pool, lit, app >>

\* The turn of step's loop ends in has_visited, which sets a bit and goes on.
MarksBit ==
    /\ InstAt(prog_insts(prog), bt.pc).op \in {"Save", "Split", "EmptyLook"}
    /\ phase' = "bt_step"

BacktrackStep ==
    /\ phase = "bt_step"
    /\ Apply(Backtrack_step(prog, call.text, ES))
    /\ visits' = [visits EXCEPT !.seen = @ \cup {<< bt.pc, bt.sat >>},
                                 !.again = @ \/ << bt.pc, bt.sat >> \in visits.seen,
                                 !.pushed = PushedAfter(@),
                                 !.marked = IF MarksBit THEN @ \cup {<< bt'.pc, bt.sat >>} ELSE @]
    /\ UNCHANGED << prog, call, engine, calls, pool, lit, app >>

BacktrackRetry ==
    /\ phase = "bt_failed"
    /\ Apply(Backtrack_retry(prog, call.text, ES))
    /\ UNCHANGED << prog, call, engine, calls, visits, pool, lit, app >>

NfaLoop ==
    /\ phase = "nfa_loop"
    /\ Apply(Nfa_loop(prog, call.text, ES))
    /\ UNCHANGED << prog, call, engine, calls, visits, pool, lit, app >>

NfaThread ==
    /\ phase = "nfa_step"
    /\ Apply(Nfa_thread(prog, call.text, ES))
    /\ UNCHANGED << prog, call, engine, calls, visits, pool, lit, app >>

NfaAdvance ==
    /\ phase = "nfa_advance"
    /\ Apply(Nfa_advance(prog, call.text, ES))
    /\ UNCHANGED << prog, call, engine, calls, visits, pool, lit, app >>

EngineStep ==
    \/ BacktrackExec \/ BacktrackBacktrack \/ BacktrackPop \/ BacktrackStep \/ BacktrackRetry
    \/ NfaExec \/ NfaLoop \/ NfaThread \/ NfaAdvance
    \/ LiteralsExec

Next == Call \/ Dispatch \/ EngineStep

Spec == Init /\ [][Next]_vars

\* Several calls on one Program that reuse its caches and one capture vector.
ReusePrograms ==
    { p \in Programs : p.name \in {"a", "ab|a", "(a)|b", "(a)|(b)", "(a*)*"} }

ReuseTexts == SeqsUpTo(Alphabet, MaxReuseLen)

ReuseOverrides == { o \in Overrides : o.disp = "Program" /\ o.pref /= "None" }

CallAgain == calls < MaxCalls /\ CallWith(ReuseTexts, ReuseOverrides)

NextReuse == CallAgain \/ Dispatch \/ EngineStep

SpecReuse == InitFor(ReusePrograms) /\ [][NextReuse]_vars

\* ------------------------------------------------------------------------
\* One exec call run to its return, from given caches and capture vector.

EngineState(capsv, b, n) ==
    [caps |-> capsv, phase |-> "enter", result |-> "none", bt |-> b, nfa |-> n, cur |-> 0]

\* The step the engine eng takes from the control point s.phase.
ExecStep(p, eng, text, start, s) ==
    CASE s.phase = "enter" /\ eng = "Backtrack" -> Backtrack_exec(p, text, start, s)
      [] s.phase = "enter" /\ eng = "Nfa" -> Nfa_exec(p, text, start, s)
      [] s.phase = "enter" /\ eng = "Literals" -> Literals_exec(p, text, start, s)
      [] s.phase = "bt_backtrack" -> Backtrack_backtrack(p, text, s)
      [] s.phase = "bt_pop" -> Backtrack_pop(p, text, s)
      [] s.phase = "bt_step" -> Backtrack_step(p, text, s)
      [] s.phase = "bt_failed" -> Backtrack_retry(p, text, s)
      [] s.phase = "nfa_loop" -> Nfa_loop(p, text, s)
      [] s.phase = "nfa_step" -> Nfa_thread(p, text, s)
      [] s.phase = "nfa_advance" -> Nfa_advance(p, text, s)
      [] OTHER -> s

ExecSteps(p, eng, text, start, s) ==
    LET Step(x) == ExecStep(p, eng, text, start, x)
    IN  Step(Step(Step(Step(Step(Step(Step(Step(s))))))))

RECURSIVE ExecRun(_, _, _, _, _)
ExecRun(p, eng, text, start, s) ==
    IF s.phase = "done" THEN s
    ELSE ExecRun(p, eng, text, start, ExecSteps(p, eng, text, start, s))

\* exec with the engine eng, caches as after construction.
Exec(p, eng, text, start, capsv) ==
    LET s == ExecRun(p, eng, text, start, EngineState(capsv, BackMachine_new, NfaThreads_new))
    IN  [result |-> s.result, caps |-> s.caps]

Outcome == [result |-> result, caps |-> caps]

Returned == phase = "done" /\ result \in {"true", "false"}

\* ------------------------------------------------------------------------
\* Reference semantics of a program: leftmost-first matching, stated on the
\* instruction graph without any engine state.

\* Offset after the instruction consumes the input at offset at, or None.
Consume(p, text, inst, at) ==
    IF at >= Len(text) THEN None
    ELSE CASE inst.op = "Bytes" ->
                IF p.bytes /\ InstBytes_matches(inst, text[at + 1]) THEN at + 1 ELSE None
           [] inst.op = "Char" ->
                IF ~p.bytes /\ DecodeAt(text, at) = inst.c
                THEN at + Utf8Width(text[at + 1]) ELSE None
           [] inst.op = "Ranges" ->
                IF ~p.bytes /\ InstRanges_matches(inst, DecodeAt(text, at))
                THEN at + Utf8Width(text[at + 1]) ELSE None
           [] OTHER -> None

\* The capture vector of the first path, in priority order (goto1 before
\* goto2), from pc at offset at to Match, as << vector >>; << >> if no path
\* matches. seen holds the pcs of the path since input was last consumed: a
\* path that returns to one of them without consuming is not a path.
RECURSIVE FirstPath(_, _, _, _, _, _)
FirstPath(p, text, pc, at, seen, capsv) ==
    LET inst == InstAt(prog_insts(p), pc)
        seen1 == seen \cup {pc}
    IN  IF pc \in seen THEN << >>
        ELSE CASE inst.op = "Match" -> << capsv >>
               [] inst.op = "Save" ->
                    FirstPath(p, text, inst.goto, at, seen1,
                              IF inst.slot < Len(capsv)
                              THEN [capsv EXCEPT ![inst.slot + 1] = at] ELSE capsv)
               [] inst.op = "Split" ->
                    LET r1 == FirstPath(p, text, inst.goto1, at, seen1, capsv)
                    IN  IF r1 /= << >> THEN r1
                        ELSE FirstPath(p, text, inst.goto2, at, seen1, capsv)
               [] inst.op = "EmptyLook" ->
                    IF InstEmptyLook_matches(inst, previous_char(text, at), next_char(text, at))
                    THEN FirstPath(p, text, inst.goto, at, seen1, capsv)
                    ELSE << >>
               [] OTHER ->
                    LET n == Consume(p, text, inst, at)
                    IN  IF n = None THEN << >>
                        ELSE FirstPath(p, text, inst.goto, n, {}, capsv)

\* Offsets at which a search from start may begin a match.
StartOffsets(p, text, start) ==
    IF anchored_begin(prog_insts(p))
    THEN IF start = 0 THEN {0} ELSE {}
    ELSE { q \in start..Len(text) : p.bytes \/ IsCharBoundary(text, q) }

SetMin(S) == CHOOSE x \in S : \A y \in S : x <= y

LeftmostFirst(p, text, start, capsv) ==
    LET hits == { q \in StartOffsets(p, text, start) :
                    FirstPath(p, text, 0, q, {}, capsv) /= << >> }
    IN  IF hits = {} THEN [result |-> "false", caps |-> capsv]
        ELSE [result |-> "true",
              caps |-> FirstPath(p, text, 0, SetMin(hits), {}, capsv)[1]]

\* The configurations reachable from << 0, q >> by any path of the program.
Successors(p, text, c) ==
    LET inst == InstAt(prog_insts(p), c[1])
        at == c[2]
    IN  CASE inst.op = "Match" -> {}
          [] inst.op = "Save" -> { << inst.goto, at >> }
          [] inst.op = "Split" -> { << inst.goto1, at >>, << inst.goto2, at >> }
          [] inst.op = "EmptyLook" ->
                IF InstEmptyLook_matches(inst, previous_char(text, at), next_char(text, at))
                THEN { << inst.goto, at >> } ELSE {}
          [] OTHER ->
                LET n == Consume(p, text, inst, at)
                IN  IF n = None THEN {} ELSE { << inst.goto, n >> }

RECURSIVE ReachFrom(_, _, _, _)
ReachFrom(p, text, frontier, done) ==
    IF frontier = {} THEN done
    ELSE LET all == done \cup frontier
             new == UNION { Successors(p, text, c) : c \in frontier } \ all
         IN  ReachFrom(p, text, new, all)

\* The program has a match that begins at offset q.
MatchesAt(p, text, q) ==
    \E c \in ReachFrom(p, text, { << 0, q >> }, {}) : InstAt(prog_insts(p), c[1]).op = "Match"

\* The engine of the current call is one the dispatchers may pick for it: the
\* literals engine only for a complete, priority-preserving prefix set.
EngineApplies ==
    engine = "Literals" =>
        Len(caps) <= 2 /\ prefixes(prog).at_match /\ preserves_priority(prefixes(prog))

\* ------------------------------------------------------------------------
\* Claims.

\* C1 (as stated): within the backtracker's size bounds, the backtracker's
\* result and capture vector equal those of the NFA simulator run on the same
\* program, input, start and initial capture vector.
C1_BacktrackEqualsNfa ==
    phase = "done" /\ engine = "Backtrack" /\ should_exec(prog, call.text)
        => Outcome = Exec(prog, "Nfa", call.text, call.start, call.caps0)

\* The backtracker has returned a match where the NFA simulator ends in a
\* fatal error.
C1_Diverges ==
    /\ phase = "done" /\ engine = "Backtrack" /\ result = "true"
    /\ Exec(prog, "Nfa", call.text, call.start, call.caps0).result = "panic"

\* C2 (as stated): leftmost-first priority. Each engine reports the match
\* of the first path in priority order (goto1 before goto2), so the
\* backtracker, the NFA simulator and the literals engine report the same
\* span and agree on every slot they share; `ab|a` on "ab" gives (0,2) and
\* `a|ab` on "ab" gives (0,1).
C2_LeftmostFirstPriority ==
    phase = "done" /\ EngineApplies =>
        /\ Outcome = LeftmostFirst(prog, call.text, call.start, call.caps0)
        /\ (call.text = << 97, 98 >> /\ call.start = 0 /\ Len(caps) = 2 =>
               /\ (prog.name = "ab|a" => caps = << 0, 2 >>)
               /\ (prog.name = "a|ab" => caps = << 0, 1 >>))

\* C3 (as stated): for a program not anchored at the beginning, a true
\* result reports in caps[0] the smallest offset p >= start at which the
\* program has a match, and a false result means no offset in start..=len
\* begins a match; `a` on "bbab" from 0 gives caps = [2, 3].
C3_LeftmostStart ==
    Returned /\ EngineApplies /\ ~anchored_begin(prog_insts(prog)) =>
        LET starts == { q \in call.start..Len(call.text) :
                          /\ prog.bytes \/ IsCharBoundary(call.text, q)
                          /\ MatchesAt(prog, call.text, q) }
        IN  /\ result = "true" => starts /= {} /\ (Len(caps) >= 2 => caps[1] = SetMin(starts))
            /\ result = "false" => starts = {}
            /\ (prog.name = "a" /\ call.text = << 98, 98, 97, 98 >> /\ call.start = 0
                    /\ Len(caps) = 2 => caps = << 2, 3 >>)

C3_SkipsToMatch ==
    /\ Returned /\ engine = "Backtrack" /\ prog.name = "a"
    /\ call.text = << 98, 98, 97, 98 >> /\ call.start = 0 /\ caps = << 2, 3 >>

\* C4: when the prefix set reports at_match and preserves_priority, the
\* literals engine returns a hit iff the regex matches, and the hit
\* (start+s, start+e) is slots 0 and 1 of the regex's leftmost-first match, as
\* the backtracker and the NFA simulator report them.
C4_PrefixSoundness ==
    phase = "done" /\ engine = "Literals"
      /\ prefixes(prog).at_match /\ preserves_priority(prefixes(prog)) =>
        LET hit == Literals_find(prefixes(prog), Slice(call.text, call.start))
            span == IF hit = << >> THEN << None, None >>
                    ELSE << call.start + hit[1], call.start + hit[2] >>
            fresh == << None, None >>
            ref == LeftmostFirst(prog, call.text, call.start, fresh)
            back == Exec(prog, "Backtrack", call.text, call.start, fresh)
            sim == Exec(prog, "Nfa", call.text, call.start, fresh)
        IN  /\ result = Bool(hit /= << >>)
            /\ result = ref.result /\ span = ref.caps
            /\ (Len(caps) = 2 /\ result = "true" => caps = span)
            /\ (back.result \in {"true", "false"} =>
                    back.result = result /\ back.caps = span)
            /\ (sim.result \in {"true", "false"} =>
                    sim.result = result /\ sim.caps = span)
            /\ back.result \in {"true", "false"} \/ sim.result \in {"true", "false"}

C4_LiteralHit ==
    /\ phase = "done" /\ engine = "Literals" /\ prog.name = "ab|ba"
    /\ call.text = << 97, 98, 98, 97 >> /\ call.start = 1 /\ caps = << 2, 4 >>

\* C7: whenever an engine returns false, the caller's capture vector equals,
\* slot by slot, its value at the start of the call.
C7_FalseLeavesCaps ==
    phase = "done" /\ result = "false" => caps = call.caps0

\* A search that wrote slot 0 at each start offset it tried has failed, and
\* the vector still holds the match of the call before.
C7_FailedAfterSaves ==
    /\ phase = "done" /\ result = "false" /\ engine = "Backtrack"
    /\ Len(caps) >= 2 /\ Len(call.text) >= 2 /\ call.start = 0
    /\ ~anchored_begin(prog_insts(prog))
    /\ call.caps0[1] /= None /\ caps[1] /= None

\* C8 (as stated): every call returns a boolean without a fatal error, and
\* every position the engine reads the input at or builds a cursor for is in
\* 0..=len.
C8_ExecTotal ==
    phase = "done" => result \in {"true", "false"} /\ cur <= Len(call.text)

\* The NFA simulator, run on a byte program, has ended in a fatal error.
C8_FatalError ==
    phase = "done" /\ result = "panic" /\ engine = "Nfa" /\ prog.bytes

\* The engine selection as C10 states it; override is "None" or "Automatic"
\* when no engine is asked for.
StatedEngine(override, cap_len, text) ==
    IF override \notin {"None", "Automatic"} THEN override
    ELSE IF cap_len <= 2 /\ prefixes(prog).at_match /\ preserves_priority(prefixes(prog))
    THEN "Literals"
    ELSE IF Len(prog_insts(prog)) <= 100 /\ Len(text) <= 256 * 1024 THEN "Backtrack"
    ELSE "Nfa"

BacktrackPhases == {"bt_backtrack", "bt_pop", "bt_step", "bt_failed"}
NfaPhases == {"nfa_loop", "nfa_step", "nfa_advance"}

\* The engine whose code is running is the one that was selected.
OneEngineRuns ==
    /\ phase \in BacktrackPhases => engine = "Backtrack"
    /\ phase \in NfaPhases => engine = "Nfa"
    /\ phase \in {"idle", "dispatch"} => engine = "none"

\* C10 (as stated): the override if set, else literals iff caps.len() <= 2
\* and at_match and preserves_priority, else the backtracker iff
\* insts.len() <= 100 and the haystack is at most 256*1024 bytes, else the NFA
\* simulator; exactly one engine runs per call.
C10_StatedPrecedence ==
    /\ phase = "enter" => engine = StatedEngine(call.pref, Len(caps), call.text)
    /\ OneEngineRuns

\* C10 (amended): as stated, except that an Executor asked for the literals
\* engine when it cannot run (caps.len() > 2, or the prefix set is not
\* complete or not priority-preserving) selects as if no engine were asked
\* for.
C10_Precedence ==
    /\ phase = "enter" =>
          LET cannot == /\ call.disp = "Executor" /\ call.pref = "Literals"
                        /\ ~(/\ Len(caps) <= 2 /\ prefixes(prog).at_match
                              /\ preserves_priority(prefixes(prog)))
          IN  engine = StatedEngine(IF cannot THEN "Automatic" ELSE call.pref,
                                    Len(caps), call.text)
    /\ OneEngineRuns

\* An Executor asked for the literals engine has selected the backtracker.
C10_LiteralsFallBack ==
    /\ phase = "enter" /\ call.disp = "Executor" /\ call.pref = "Literals"
    /\ engine = "Backtrack"

AllNone(n) == [i \in 1..n |-> None]

\* C5 (as stated): a call made with the capture vector an earlier call left
\* yields the same boolean and capture vector as the same call made with a
\* fresh all-None vector, for every engine.
C5_ReusedVectorAsFresh ==
    phase = "done" =>
        Outcome = Exec(prog, engine, call.text, call.start, AllNone(Len(caps)))

\* A call has returned true with a slot that a fresh vector would not hold.
C5_StaleSlot ==
    /\ phase = "done" /\ calls = 2 /\ result = "true"
    /\ Exec(prog, engine, call.text, call.start, AllNone(Len(caps))).result = "true"
    /\ caps /= Exec(prog, engine, call.text, call.start, AllNone(Len(caps))).caps

\* C6: the result of a call (boolean and captures) is the one the same
\* program, text, start and initial capture vector give with caches as after
\* construction, whatever earlier calls have left in the job stack, the
\* visited bitmap and the thread lists.
C6_CachesDoNotMatter ==
    phase = "done" /\ calls > 1 =>
        Outcome = Exec(prog, engine, call.text, call.start, call.caps0)

\* The backtracker has returned a match in a call that began with jobs on
\* the stack and bits set in a bitmap longer than this call needs.
C6_DirtyCaches ==
    /\ phase = "done" /\ calls > 1 /\ call.dirty
    /\ engine = "Backtrack" /\ result = "true"
    /\ call.words > Len(bt.visited)

\* Steps of one backtracker call: the entry; per start offset a push, a
\* retry and a pop that finds the stack empty; per turn of step's loop the
\* turn, at most one push and its pop. The turns are bounded by the visited
\* bitmap: at most two for each of its insts * (len + 1) bits.
BacktrackStepBound(p, text) ==
    LET bits == Len(prog_insts(p)) * (Len(text) + 1)
    IN  1 + 4 * (Len(text) + 1) + 3 * (2 * bits)

\* Steps of one NFA call: the entry; per input position (and the end) the
\* loop head, one step for each thread of clist, which holds a pc at most
\* once, and the loop tail.
NfaStepBound(p, text) == 1 + (Len(text) + 1) * (Len(prog_insts(p)) + 2)

\* C9: every engine invocation terminates, on every program and input,
\* programs with cycles that consume no input such as `(a*)*` included: the
\* number of steps of a call stays within a bound set by the visited bitmap
\* (backtracker) and by the thread list holding each pc once (NFA), and a
\* call that has not returned has a step to take.
C9_Terminates ==
    /\ engine = "Backtrack" => steps <= BacktrackStepBound(prog, call.text)
    /\ engine = "Nfa" => steps <= NfaStepBound(prog, call.text)
    /\ engine = "Literals" => steps <= 1
    /\ engine = "none" => steps = 0
    /\ phase \in {"idle", "dispatch", "enter", "done"} \cup BacktrackPhases \cup NfaPhases
    /\ phase = "enter" => engine \in {"Backtrack", "Nfa", "Literals"}
    /\ phase = "bt_pop" /\ bt.jobs = <<>> => bt.at <= Len(call.text)
    /\ Len(bt.jobs) <= BacktrackStepBound(prog, call.text)

\* Both engines have come back from the nested empty loop of `(a*)*`: the
\* search at offset 0 of "ba" went round the loop without consuming.
C9_EmptyLoopDone ==
    /\ phase = "done" /\ prog.name = "(a*)*" /\ prog.bytes /\ engine = "Backtrack"
    /\ result = "true" /\ call.text = << 98, 97 >> /\ call.start = 0
    /\ caps = << 0, 0, None, None >>
    /\ Exec(prog, "Nfa", call.text, call.start, call.caps0) = Outcome

\* The backtracker's size bounds as the spec states them.
WithinBacktrackBounds == Len(prog_insts(prog)) <= 100 /\ Len(call.text) <= 256 * 1024

Slots(capsv, n) == SubSeq(capsv, 1, n)

\* Result and first slots of a run with a short vector against the run of
\* engine eng with the full vector: the same outcome, and on a boolean the
\* same slots.
SameAsFull(eng) ==
    LET full == Exec(prog, eng, call.text, call.start, alloc_captures(prog))
    IN  /\ result = full.result
        /\ result \in {"true", "false"} => caps = Slots(full.caps, Len(caps))

MatchesEmpty(p) == MatchesAt(p, << >>, 0)

\* C13 (as stated, of the calls that return from an engine the dispatchers
\* may pick): for a pattern that matches the empty string, exec returns true
\* with caps[0] == caps[1] == Some(start).
C13_EmptyMatchAtStart ==
    Returned /\ EngineApplies /\ MatchesEmpty(prog) =>
        /\ result = "true"
        /\ Len(caps) >= 2 => caps[1] = call.start /\ caps[2] = call.start

\* C13 (amended): for the empty pattern, exec returns true with
\* caps[0] == caps[1] == Some(start), for every text, every start in
\* 0..=len and under every engine.
C13_EmptyPatternAtStart ==
    phase = "done" /\ prog.name = "" =>
        /\ result = "true"
        /\ Len(caps) = 2 => caps = << call.start, call.start >>

\* The backtracker has matched the empty pattern at the end of the text.
C13_EmptyPatternAtEnd ==
    /\ phase = "done" /\ prog.name = "" /\ engine = "Backtrack"
    /\ call.text = << 97, 98 >> /\ call.start = 2 /\ caps = << 2, 2 >>

PoolPrograms == { p \in Programs : p.name = "a" /\ ~p.bytes }
PoolTexts == { << 97 >> }

\* The ways a call leaves the engine: it returns true, it returns false, or
\* it unwinds from a fatal error.
ExitPaths == {"true", "false", "panic"}

\* A thread calls exec with an engine set.
ThreadCall ==
    \E t \in PoolThreads, k \in PoolKinds, text \in PoolTexts :
        /\ pool.th[t].pc = "idle"
        /\ pool' = [pool EXCEPT !.th[t] = [pc |-> "rent", engine |-> k, text |-> text,
                                           buf |-> None, out |-> "none"]]
        /\ UNCHANGED << prog, call, caps, engine, phase, result, bt, nfa, cur, calls,
                        steps, visits, lit, app >>

\* prog.backtrack.get() in Backtrack::exec, prog.cache_nfa() in Nfa::exec.
ThreadRent ==
    \E t \in PoolThreads :
        /\ pool.th[t].pc = "rent"
        /\ LET k == pool.th[t].engine
               g == Pool_get(pool.free[k][t], pool.made)
           IN  pool' = [pool EXCEPT !.free[k][t] = g.stack, !.made = g.made,
                                    !.th[t].buf = g.value, !.th[t].pc = "run"]
        /\ UNCHANGED << prog, call, caps, engine, phase, result, bt, nfa, cur, calls,
                        steps, visits, lit, app >>

\* The engine runs on the rented cache and leaves by one of the exit paths.
ThreadRun ==
    \E t \in PoolThreads, out \in ExitPaths :
        /\ pool.th[t].pc = "run"
        /\ pool' = [pool EXCEPT !.th[t].out = out, !.th[t].pc = "exit"]
        /\ UNCHANGED << prog, call, caps, engine, phase, result, bt, nfa, cur, calls,
                        steps, visits, lit, app >>

\* The guard goes out of scope at the end of exec, or is dropped by unwinding.
ThreadExit ==
    \E t \in PoolThreads :
        /\ pool.th[t].pc = "exit"
        /\ LET k == pool.th[t].engine
           IN  pool' = [pool EXCEPT
                          !.free[k][t] = PoolGuard_drop(@, pool.th[t].buf, pool.th[t].out),
                          !.th[t].buf = None, !.th[t].pc = "idle", !.th[t].text = << >>]
        /\ UNCHANGED << prog, call, caps, engine, phase, result, bt, nfa, cur, calls,
                        steps, visits, lit, app >>

NextPool == ThreadCall \/ ThreadRent \/ ThreadRun \/ ThreadExit

SpecPool == InitFor(PoolPrograms) /\ [][NextPool]_vars

\* The caches lying in the pools, and the caches held by calls in flight.
FreeCaches ==
    UNION { { pool.free[k][t][i] : i \in 1..Len(pool.free[k][t]) } :
            k \in PoolKinds, t \in PoolThreads }
HeldCaches == { pool.th[t].buf : t \in PoolThreads } \ {None}

\* C15: no two calls in flight hold the same cache, a cache held is not in a
\* pool, and every cache rented is given back on every exit path: a thread
\* outside exec holds none, and every cache made is either held by a call in
\* flight or back in a pool.
C15_ScratchExclusive ==
    /\ \A t, u \in PoolThreads :
          t /= u /\ pool.th[t].buf /= None => pool.th[t].buf /= pool.th[u].buf
    /\ HeldCaches \cap FreeCaches = {}
    /\ \A t \in PoolThreads :
          /\ pool.th[t].pc \in {"idle", "rent"} => pool.th[t].buf = None
          /\ pool.th[t].pc \in {"run", "exit"} => pool.th[t].buf /= None
    /\ HeldCaches \cup FreeCaches = 1..pool.made

\* One thread's call has ended in a fatal error and its cache is back in its
\* pool, while another thread's call is running on a cache of the same pool.
C15_ReturnedOnUnwind ==
    \E t, u \in PoolThreads :
        /\ pool.th[t].pc = "idle" /\ pool.th[t].out = "panic"
        /\ Exec(prog, pool.th[t].engine, << 97 >>, 0, caps).result = "panic"
        /\ Len(pool.free[pool.th[t].engine][t]) = 1
        /\ pool.th[u].pc = "run" /\ pool.th[u].engine = pool.th[t].engine

\* ------------------------------------------------------------------------
\* The visited set of the backtracker.

\* The bound on the work of one backtrack(start): one entry into step for
\* every pair of an instruction and a position of the input.
VisitBound == Len(prog_insts(prog)) * (Len(call.text) + 1)

\* VisitedOnce: no pair has been run on twice. StepEntriesBounded: the calls of
\* step from the job loop stay within the bound.
\*
\* C16: within one backtrack(start), a pair (pc, position) that step has run
\* on is never run on again, so step is entered at most
\* insts.len() * (input.len() + 1) times.
VisitedOnce == ~visits.again
StepEntriesBounded == visits.entries <= VisitBound

C16_VisitedOnce == VisitedOnce /\ StepEntriesBounded


\* ------------------------------------------------------------------------
\* Unicode programs on texts that hold a character of two bytes.

\* The characters `a` and U+00E9 in UTF-8, and the texts of up to MaxChars
\* of them.
Utf8Chars == { << 97 >>, << 195, 169 >> }

RECURSIVE Utf8Strings(_)
Utf8Strings(n) ==
    IF n = 0 THEN { << >> }
    ELSE LET shorter == Utf8Strings(n - 1)
         IN  shorter \cup { t \o c : t \in shorter, c \in Utf8Chars }

Utf8Texts == Utf8Strings(MaxChars)

Utf8Programs == { p \in Programs : ~p.bytes /\ p.name \in {"a", "a*", "a$", "$", ""} }

CallUtf8 == calls = 0 /\ CallWith(Utf8Texts, Overrides)

NextUtf8 == CallUtf8 \/ Dispatch \/ EngineStep

SpecUtf8 == InitFor(Utf8Programs) /\ [][NextUtf8]_vars

\* C17: in Unicode mode the position an engine attempts a match at (the start
\* position of the backtracker's outer loop, the position step works at, the
\* position of the NFA simulation) and every offset held in a capture slot is
\* a codepoint boundary of the text.
C17_CodepointBoundaries ==
    ~prog.bytes /\ phase /= "idle" =>
        /\ phase \in BacktrackPhases =>
              /\ IsCharBoundary(call.text, bt.at)
              /\ phase = "bt_step" => IsCharBoundary(call.text, bt.sat)
        /\ phase \in NfaPhases => IsCharBoundary(call.text, nfa.at)
        /\ \A i \in 1..Len(caps) : caps[i] /= None => IsCharBoundary(call.text, caps[i])


\* ------------------------------------------------------------------------
\* The prefix matcher on its own: literals are extracted from a program's
\* instructions (BuildPrefixes), the alternates are made into a matcher
\* (into_matcher), and the matcher searches a haystack (find).

LitAlphabet == {97, 98}
LitTexts == UNION { [1..n -> LitAlphabet] : n \in 0..MaxHay }

\* Programs of the tests of literals.rs, with the pc of each instruction:
\* `a|b`, `abc|def`, `a+|b`, `abc|def+`, `[a-c][a-c]`, `[a-z][a-z]`.
Insts_a_or_b(b) ==
    << Save(0, 1), Split(2, 3), Lit(b, 97, 4), Lit(b, 98, 4), Save(1, 5), Match >>
Insts_abc_def(b) ==
    << Save(0, 1), Split(2, 5), Lit(b, 97, 3), Lit(b, 98, 4), Lit(b, 99, 8),
       Lit(b, 100, 6), Lit(b, 101, 7), Lit(b, 102, 8), Save(1, 9), Match >>
Insts_aplus_or_b(b) ==
    << Save(0, 1), Split(2, 4), Lit(b, 97, 3), Split(2, 5), Lit(b, 98, 5),
       Save(1, 6), Match >>
Insts_abc_defplus(b) ==
    << Save(0, 1), Split(2, 5), Lit(b, 97, 3), Lit(b, 98, 4), Lit(b, 99, 9),
       Lit(b, 100, 6), Lit(b, 101, 7), Lit(b, 102, 8), Split(7, 9), Save(1, 10), Match >>
\* `a|b*`
Insts_a_or_bstar(b) ==
    << Save(0, 1), Split(2, 3), Lit(b, 97, 5), Split(4, 5), Lit(b, 98, 3), Save(1, 6),
       Match >>
\* An alternation of n >= 2 branches `[\x00-\x09][\x00-\x09]c`, c the byte
\* 100 + j in branch j: each branch has 100 literals of 3 bytes, which is
\* its budget of 300 bytes. Splits at 1..n-1, branch j at n + 3 * (j - 1).
WideBranch(n, j) == n + 3 * (j - 1)
Insts_wide(n) ==
    << Save(0, 1) >>
    \o [i \in 1..(n - 1) |->
           Split(WideBranch(n, i), IF i < n - 1 THEN i + 1 ELSE WideBranch(n, n))]
    \o [k \in 1..(3 * n) |->
           LET j == (k - 1) \div 3 + 1
               pc == n + k - 1
           IN  CASE (k - 1) % 3 = 0 -> Bytes(0, 9, pc + 1)
                 [] (k - 1) % 3 = 1 -> Bytes(0, 9, pc + 1)
                 [] OTHER -> Bytes(100 + j, 100 + j, 4 * n)]
    \o << Save(1, 4 * n + 1), Match >>
\* `b|a` and `((a|b)|(c|d))`
Insts_b_or_a(b) ==
    << Save(0, 1), Split(2, 3), Lit(b, 98, 4), Lit(b, 97, 4), Save(1, 5), Match >>
Insts_nested_alt(b) ==
    << Save(0, 1), Save(2, 2), Split(3, 8), Save(4, 4), Split(5, 6), Lit(b, 97, 7),
       Lit(b, 98, 7), Save(5, 13), Save(6, 9), Split(10, 11), Lit(b, 99, 12),
       Lit(b, 100, 12), Save(7, 13), Save(3, 14), Save(1, 15), Match >>
Insts_class2(b, hi) ==
    << Save(0, 1), Rng(b, 97, hi, 2), Rng(b, 97, hi, 3), Save(1, 4), Match >>
\* `(a|b).+`, Unicode: `.` is every character but the line feed.
Insts_alt_dot ==
    << Save(0, 1), Save(2, 2), Split(3, 4), Char(97, 5), Char(98, 5), Save(3, 6),
       Ranges(<< << 0, 9 >>, << 11, 1114111 >> >>, 7), Split(6, 8), Save(1, 9), Match >>

\* `[\x00-\x7f]aa`, Unicode: 128 literals of three bytes.
Insts_ascii_aa ==
    << Save(0, 1), Ranges(<< << 0, 127 >> >>, 2), Char(97, 3), Char(97, 4), Save(1, 5),
       Match >>

\* `(a|b)*c`
Insts_alt_star_c(b) ==
    << Save(0, 1), Split(2, 7), Save(2, 3), Split(4, 5), Lit(b, 97, 6), Lit(b, 98, 6),
       Save(3, 1), Lit(b, 99, 8), Save(1, 9), Match >>
\* `(?:a?)?b`
Insts_opt_opt_b(b) ==
    << Save(0, 1), Split(2, 4), Split(3, 4), Lit(b, 97, 4), Lit(b, 98, 5), Save(1, 6),
       Match >>

\* `[\xfe-\xff]` and `[\x00-\xff]`, bytes.
Insts_byte_range(lo, hi) == << Save(0, 1), Bytes(lo, hi, 2), Save(1, 3), Match >>

\* The greatest number of branches of 300 bytes within BuildPrefixes_limit.
WideFit == BuildPrefixes_limit \div (BuildPrefixes_limit \div 10)

LitPrograms ==
    UNION { { Insts_a(b), Insts_ab(b), Insts_ab_a(b), Insts_a_ab(b), Insts_grp2(b),
              Insts_astar(b), Insts_aplus_b(b), Insts_anch(b), Insts_a_end(b),
              Insts_empty(b), Insts_a_or_b(b), Insts_abc_def(b), Insts_aplus_or_b(b),
              Insts_abc_defplus(b), Insts_class2(b, 99), Insts_class2(b, 122),
              Insts_b_or_a(b), Insts_nested_alt(b), Insts_a_or_bstar(b),
              Insts_alt_star_c(b), Insts_opt_opt_b(b) }
            : b \in BOOLEAN }
    \cup { Insts_alt_dot, Insts_wide(WideFit), Insts_wide(WideFit + 1), Insts_ascii_aa,
           Insts_byte_range(U8_MAX - 1, U8_MAX), Insts_byte_range(0, U8_MAX) }

\* Alternates as the builders leave them: no literal is empty. Up to MaxLits
\* literals of up to MaxLitLen bytes, single literals of three bytes, `foo`,
\* `bar`, `baz`, two more sets of three, and two sets at the boundary of 250
\* bytes.
LitWords == UNION { [1..n -> {97, 98}] : n \in 1..MaxLitLen }
LongLit(n) == [i \in 1..n |-> 97]
LitSets ==
    UNION { [1..n -> LitWords] : n \in 1..MaxLits }
    \cup { << w >> : w \in [1..3 -> {97, 98}] }
    \cup { << << 102, 111, 111 >>, << 98, 97, 114 >>, << 98, 97, 122 >> >>,
           << << 97 >>, << 98 >>, << 99 >> >>, << << 97, 98 >>, << 97 >>, << 98 >> >>,
           << LongLit(249), << 98 >> >>, << LongLit(250), << 98 >> >> }
LitAlts == [at_match : {TRUE}, literals : LitSets]

InitLit ==
    /\ prog = [name |-> "a", bytes |-> TRUE]
    /\ call = NoCall
    /\ caps = << >>
    /\ engine = "none"
    /\ phase = "idle"
    /\ result = "none"
    /\ bt = BackMachine_new
    /\ nfa = NfaThreads_new
    /\ cur = 0
    /\ calls = 0
    /\ steps = 0
    /\ visits = NoVisits
    /\ pool = PoolInit
    /\ app = NoApp
    /\ \/ \E insts \in LitPrograms, checked \in BOOLEAN :
             lit = [NoLit EXCEPT !.stage = "insts", !.insts = insts, !.checked = checked]
       \/ \E alts \in LitAlts : lit = [NoLit EXCEPT !.stage = "alts", !.alts = alts]

LitUnchanged ==
    UNCHANGED << prog, call, caps, engine, phase, result, bt, nfa, cur, calls, steps,
                 visits, pool, app >>

\* BuildPrefixes::new(insts).literals()
LitExtract ==
    /\ lit.stage = "insts"
    /\ lit' = IF lit.checked /\ PrefixOverflows(lit.insts)
              THEN [lit EXCEPT !.stage = "panic"]
              ELSE [lit EXCEPT !.stage = "alts", !.alts = BuildPrefixes_literals(lit.insts)]
    /\ LitUnchanged

\* AlternateLiterals::into_matcher
LitBuild ==
    /\ lit.stage = "alts"
    /\ lit' = [lit EXCEPT !.stage = "matcher", !.m = into_matcher(lit.alts)]
    /\ LitUnchanged

\* Literals::find(haystack)
LitFind ==
    /\ lit.stage = "matcher"
    /\ \E haystack \in LitTexts :
          lit' = [lit EXCEPT !.stage = "found", !.haystack = haystack,
                             !.hit = Literals_find(lit.m, haystack)]
    /\ LitUnchanged

NextLit == LitExtract \/ LitBuild \/ LitFind

SpecLit == InitLit /\ [][NextLit]_vars

\* The leftmost-first match of the alternation of the literals lits in h: the
\* least offset at which a literal occurs, and there the first literal in the
\* order of the alternation. <<>> if none occurs.
OccursAt(l, h, st) == st + Len(l) <= Len(h) /\ SubSeq(h, st + 1, st + Len(l)) = l

LiteralLeftmostFirst(lits, h) ==
    LET Hits == { x \in (0..Len(h)) \X (1..Len(lits)) : OccursAt(lits[x[2]], h, x[1]) }
    IN  IF Hits = {} THEN << >>
        ELSE LET st == SetMin({ x[1] : x \in Hits })
                 i == SetMin({ x[2] : x \in { y \in Hits : y[1] = st } })
             IN  << st, st + Len(lits[i]) >>

SameLength(lits) == \A i \in 1..Len(lits) : Len(lits[i]) = Len(lits[1])

AutomatonKinds == {"FullAutomaton", "Automaton"}

\* C18: preserves_priority() is true for the Empty, Byte, ByteSet and Single
\* matchers; for an Aho-Corasick matcher it is true iff all patterns have the
\* same length (`ab|a` is not preserving, `foo|bar|baz` is); and whenever it is
\* true, the hit returned by find is the leftmost-first match of the
\* alternation of the literals.
C18_PreservesPriority ==
    lit.stage \in {"matcher", "found"} =>
        LET lits == lit.alts.literals
            kind == lit.m.matcher.kind
        IN  /\ kind \notin AutomatonKinds => preserves_priority(lit.m)
            /\ kind \in AutomatonKinds => (preserves_priority(lit.m) <=> SameLength(lits))
            /\ lits = << << 97, 98 >>, << 97 >> >> =>
                  kind \in AutomatonKinds /\ ~preserves_priority(lit.m)
            /\ lits = << << 102, 111, 111 >>, << 98, 97, 114 >>, << 98, 97, 122 >> >> =>
                  kind \in AutomatonKinds /\ preserves_priority(lit.m)
            /\ lit.stage = "found" /\ lits /= << >> /\ preserves_priority(lit.m) =>
                  lit.hit = LiteralLeftmostFirst(lits, lit.haystack)

\* The automaton of `ab|ba`, both of two bytes, has searched "bbab", in which
\* `ba` occurs before `ab`: the hit is `ba` at 1..3.
C18_SameLengthHit ==
    /\ lit.stage = "found"
    /\ lit.m.matcher.kind = "FullAutomaton"
    /\ lit.alts.literals = << << 97, 98 >>, << 98, 97 >> >>
    /\ lit.haystack = << 98, 98, 97, 98 >>
    /\ lit.hit = << 1, 3 >>

\* The shape the classification by the literal set names.
RECURSIVE Joined(_)
Joined(lits) ==
    IF lits = << >> THEN << >>
    ELSE IF Len(lits) = 1 THEN lits[1]
    ELSE LET mid == Len(lits) \div 2
         IN  Joined(SubSeq(lits, 1, mid)) \o Joined(SubSeq(lits, mid + 1, Len(lits)))

TotalBytes(lits) == Len(Joined(lits))

StatedShape(lits) ==
    LET n == Len(lits)
        ones == \A i \in 1..n : Len(lits[i]) = 1
    IN  IF n = 0 THEN "Empty"
        ELSE IF n = 1 /\ ones THEN "Byte"
        ELSE IF n >= 2 /\ ones THEN "Bytes"
        ELSE IF n = 1 THEN "Single"
        ELSE IF TotalBytes(lits) <= 250 THEN "FullAutomaton"
        ELSE "Automaton"

RECURSIVE BranchHeads(_, _, _)
BranchHeads(insts, todo, done) ==
    IF todo = {} THEN { pc \in done : InstAt(insts, pc).op \notin {"Save", "Split"} }
    ELSE LET pc == CHOOSE x \in todo : TRUE
             inst == InstAt(insts, pc)
             next == CASE inst.op = "Save" -> {inst.goto}
                       [] inst.op = "Split" -> {inst.goto1, inst.goto2}
                       [] OTHER -> {}
         IN  BranchHeads(insts, (todo \cup next) \ (done \cup {pc}), done \cup {pc})

LiteralOps == {"Char", "Ranges", "Bytes"}

\* The number of alternatives of a literal instruction.
Alternatives(inst) ==
    CASE inst.op = "Char" -> 1
      [] inst.op = "Ranges" -> InstRanges_num_chars(inst)
      [] OTHER -> inst.end - inst.start + 1

\* A branch is complete if it consumes literal instructions only (at least
\* one), each passing the test of its budget of BuildPrefixes_limit \div 10
\* bytes, and stops at Match, with nothing but Save between. count and depth
\* are the number and the length of the literals gathered so far (characters
\* of one byte). The test of a Char adds one byte to the bytes gathered; that
\* of a range counts every literal it makes.
RECURSIVE BranchComplete(_, _, _, _)
BranchComplete(insts, pc, count, depth) ==
    LET inst == InstAt(insts, pc)
    IN  CASE inst.op = "Save" -> BranchComplete(insts, inst.goto, count, depth)
          [] inst.op = "Match" -> depth > 0
          [] inst.op \in LiteralOps ->
                /\ IF inst.op = "Char"
                   THEN count * depth + 1 <= BuildPrefixes_limit \div 10
                   ELSE count * Alternatives(inst) * (depth + 1) <= BuildPrefixes_limit \div 10
                /\ BranchComplete(insts, inst.goto, count * Alternatives(inst), depth + 1)
          [] OTHER -> FALSE

CompleteAlternation(insts) ==
    \A pc \in BranchHeads(insts, {1}, {}) : BranchComplete(insts, pc, 1, 0)

\* C20: at_match() of the prefix set extracted from a program is true iff the
\* set is not empty and every terminal branch of the alternation consumed
\* literal instructions only and stopped at an instruction that leads to
\* Match through Save only, within its byte budget: `a|b` and `abc|def` are
\* complete; `a+|b`, `abc|def+` and `(a|b).+` are not.
C20_AtMatchComplete ==
    lit.stage \in {"matcher", "found"} /\ lit.insts /= << >> =>
        /\ lit.m.at_match <=> (~Literals_is_empty(lit.m) /\ CompleteAlternation(lit.insts))
        /\ lit.insts \in { Insts_a_or_b(b) : b \in BOOLEAN }
                         \cup { Insts_abc_def(b) : b \in BOOLEAN } => lit.m.at_match
        /\ lit.insts \in { Insts_aplus_or_b(b) : b \in BOOLEAN }
                         \cup { Insts_abc_defplus(b) : b \in BOOLEAN }
                         \cup { Insts_alt_dot } =>
              ~lit.m.at_match /\ ~Literals_is_empty(lit.m)

\* The prefixes of `abc|def+` are `abc` and `def`, and the set is not
\* complete: the second branch stops at the Split of the repetition.
C20_IncompleteBranch ==
    /\ lit.stage = "matcher"
    /\ lit.insts = Insts_abc_defplus(FALSE)
    /\ lit.alts.literals = << << 97, 98, 99 >>, << 100, 101, 102 >> >>
    /\ ~lit.m.at_match

\* ------------------------------------------------------------------------
\* The prefixes of a program and its matches.

\* The literals extracted from the program of the call.
LiteralsOf == [p \in Programs |-> BuildPrefixes_literals(prog_insts(p)).literals]
PrefixLiterals == LiteralsOf[prog]

\* A terminal branch of the alternation at the head of the program begins
\* with an instruction that is not a literal.
HasEmptyBranch(insts) ==
    \E pc \in BranchHeads(insts, {1}, {}) : InstAt(insts, pc).op \notin LiteralOps

\* C21: if the extracted prefix set is not empty, the text at the start
\* offset of every match of the program begins with one of the literals; if
\* a branch of the alternation at the head has no literal to require, the
\* set is empty. The property is one of the program and the text, and is
\* evaluated once for each pair: at the calls from offset 0 with no engine set.
C21_PrefixRequired ==
    phase = "dispatch" /\ call.start = 0 /\ call.pref = "None" =>
        /\ PrefixLiterals /= << >> =>
              \A q \in 0..Len(call.text) :
                  MatchesAt(prog, call.text, q) =>
                      \E i \in 1..Len(PrefixLiterals) : OccursAt(PrefixLiterals[i], call.text, q)
        /\ HasEmptyBranch(prog_insts(prog)) => PrefixLiterals = << >>
        /\ Literals_is_empty(prefixes(prog)) <=> PrefixLiterals = << >>

\* `ab|ba` is called on "aba", which has a match at 0 beginning with `ab` and
\* a match at 1 beginning with `ba`.
C21_MatchesBeginWithLiterals ==
    /\ phase = "dispatch" /\ call.start = 0 /\ call.pref = "None"
    /\ prog.name = "ab|ba"
    /\ PrefixLiterals = << << 97, 98 >>, << 98, 97 >> >>
    /\ call.text = << 97, 98, 97 >>
    /\ MatchesAt(prog, call.text, 0) /\ MatchesAt(prog, call.text, 1)
    /\ ~MatchesAt(prog, call.text, 2)

\* ------------------------------------------------------------------------
\* The order of the extracted prefixes

\* The branches of the alternation at the head of a program in the order of
\* their priority: below a Split, those of goto1 before those of goto2. seen
\* holds the instructions on the way, so that a loop is entered once.
RECURSIVE PriorityHeads(_, _, _)
PriorityHeads(insts, pc, seen) ==
    LET inst == InstAt(insts, pc)
    IN  IF pc \in seen THEN << >>
        ELSE CASE inst.op = "Save" -> PriorityHeads(insts, inst.goto, seen \cup {pc})
               [] inst.op = "Split" ->
                     PriorityHeads(insts, inst.goto1, seen \cup {pc})
                        \o PriorityHeads(insts, inst.goto2, seen \cup {pc})
               [] OTHER -> << pc >>

\* The literals of the branches, branch after branch in the order heads.
RECURSIVE BranchLiterals(_, _)
BranchLiterals(insts, heads) ==
    IF heads = << >> THEN << >>
    ELSE BuildRequiredLiterals_literals(insts, BuildPrefixes_limit \div 10, heads[1]).literals
            \o BranchLiterals(insts, Tail(heads))

\* C22: a non-empty set of extracted prefixes lists the literals in the
\* priority order of the alternation: for every Split, the literals of the
\* goto1 branch come before those of the goto2 branch.
C22_PriorityOrder ==
    lit.stage /= "insts" /\ lit.insts /= << >> /\ lit.alts.literals /= << >> =>
        lit.alts.literals = BranchLiterals(lit.insts, PriorityHeads(lit.insts, 1, {}))

C22_NestedAlternation ==
    /\ lit.stage = "alts"
    /\ lit.insts = Insts_nested_alt(TRUE)
    /\ lit.alts.literals = << << 97 >>, << 98 >>, << 99 >>, << 100 >> >>

\* ------------------------------------------------------------------------
\* The NFA simulator after a match

\* The thread of clist that the thread loop steps next, and the threads of a
\* list in the order of their priority.
NextThread == nfa.clist.dense[nfa.i + 1]
ThreadsOf(list) == SubSeq(list.dense, 1, list.size)
AtMatch == phase = "nfa_step" /\ InstAt(prog_insts(prog), NextThread.pc).op = "Match"

\* C23: in the NFA simulator, a thread that reaches Match ends the thread
\* loop of its position, so the threads after it in clist are not stepped;
\* its captures replace the recorded ones, also when a match was recorded
\* before; the threads of nlist are the threads of the next position; once a
\* match is recorded no thread is added at pc 0; and a call that returns
\* true reports, for the start it reports, the match of the first path in
\* priority order, which is as long as the priority of the branches allows.
C23_MatchCutsLowerPriority ==
    [][/\ AtMatch =>
              /\ phase' \in {"nfa_advance", "done"}
              /\ nfa'.nlist = nfa.nlist
              /\ caps' = ZipCopy(caps, NextThread.caps)
              /\ phase' = "nfa_advance" => nfa'.matched /\ nfa'.i = nfa.i
       /\ phase = "nfa_advance" /\ phase' = "nfa_loop" =>
              /\ ThreadsOf(nfa'.clist) = ThreadsOf(nfa.nlist)
              /\ nfa'.matched = nfa.matched
       /\ phase = "nfa_loop" /\ nfa.matched =>
              /\ phase' \in {"nfa_step", "done"}
              /\ ThreadsOf(nfa'.clist) = ThreadsOf(nfa.clist)
              /\ nfa.clist.size = 0 => phase' = "done" /\ result' = "true"
       /\ engine = "Nfa" /\ phase' = "done" /\ result' = "true" /\ Len(caps') >= 2 =>
              /\ caps'[1] \in call.start..Len(call.text)
              /\ << caps' >> = FirstPath(prog, call.text, 0, caps'[1], {}, call.caps0)
      ]_vars

\* `a|ab` on "ab": at offset 1 the thread of `a` is at Match and the thread
\* of `ab`, after it in clist, is left unstepped.
C23_LowerPriorityLeft ==
    /\ phase = "nfa_advance" /\ nfa.matched /\ nfa.i + 1 < nfa.clist.size
    /\ prog.name = "a|ab" /\ call.text = << 97, 98 >> /\ caps = << 0, 1 >>

\* ------------------------------------------------------------------------
\* The thread for pc 0

\* The step is one from the head of the loop of exec_ to its thread loop, and
\* in it a thread for pc 0 joins clist. pc 0 is the target of no instruction,
\* so clist grows in such a step only by add(clist, caps, 0, at).
StartsThreads == phase = "nfa_loop" /\ phase' = "nfa_step"
AddsThreadZero ==
    /\ StartsThreads
    /\ nfa'.clist.size > nfa.clist.size
    /\ nfa'.clist.dense[nfa.clist.size + 1].pc = 0

\* C25 (as stated): in the main loop of the NFA simulator a thread for pc 0
\* is added to clist at the current position only if no match has been found
\* yet and the program is not anchored_begin.
C25_ThreadZeroOnlyUnanchored ==
    [][AddsThreadZero => ~nfa.matched /\ ~anchored_begin(prog_insts(prog))]_vars

\* C25 (amended): a thread for pc 0 is added exactly if clist is empty, or no
\* match has been found yet and the program is not anchored_begin; it is
\* never added after a match, and for an anchored program it is added at
\* offset 0 to an empty clist only.
C25_ThreadZeroGuard ==
    [][StartsThreads =>
          /\ AddsThreadZero <=>
                 \/ nfa.clist.size = 0
                 \/ ~anchored_begin(prog_insts(prog)) /\ ~nfa.matched
          /\ ~AddsThreadZero => ThreadsOf(nfa'.clist) = ThreadsOf(nfa.clist)
          /\ AddsThreadZero => ~nfa.matched
          /\ AddsThreadZero /\ anchored_begin(prog_insts(prog)) =>
                 nfa.clist.size = 0 /\ nfa'.at = 0
      ]_vars

\* `^a` on "aa" from 0: the one thread for pc 0 was added at offset 0, and at
\* offset 1 clist holds the thread that follows `a` and no thread for pc 0.
C25_AnchoredStartsOnce ==
    /\ phase = "nfa_step" /\ prog.name = "^a" /\ call.text = << 97, 97 >>
    /\ nfa.at = 1 /\ nfa.clist.size > 0
    /\ \A i \in 1..nfa.clist.size : nfa.clist.dense[i].pc /= 0

\* ------------------------------------------------------------------------
\* The prefix jump of the NFA simulator

\* Nfa_loop with the jump disabled: with clist empty the thread for pc 0 is
\* added at the current position.
Nfa_loop_NoJump(p, text, s) ==
    LET q == s.nfa
    IN  IF q.clist.size = 0 /\ (q.matched \/ (q.at /= 0 /\ anchored_begin(prog_insts(p))))
        THEN Return(s, Bool(q.matched))
        ELSE Nfa_start_threads(p, text, s, q.at)

NoJumpStep(p, text, start, s) ==
    IF s.phase = "nfa_loop" THEN Nfa_loop_NoJump(p, text, s)
    ELSE ExecStep(p, "Nfa", text, start, s)

NoJumpSteps(p, text, start, s) ==
    LET Step(x) == NoJumpStep(p, text, start, x)
    IN  Step(Step(Step(Step(Step(Step(Step(Step(s))))))))

RECURSIVE NoJumpRun(_, _, _, _)
NoJumpRun(p, text, start, s) ==
    IF s.phase = "done" THEN s
    ELSE NoJumpRun(p, text, start, NoJumpSteps(p, text, start, s))

\* exec of the NFA simulator with the jump disabled, caches as after
\* construction.
NfaNoJump(p, text, start, capsv) ==
    LET s == NoJumpRun(p, text, start, EngineState(capsv, BackMachine_new, NfaThreads_new))
    IN  [result |-> s.result, caps |-> s.caps]

\* C24 (as stated, of the calls that return): for a program with a non-empty
\* prefix matcher, the NFA simulator with the prefix_at jump returns the
\* boolean and the captures that the same simulator returns with the jump
\* disabled.
C24_JumpSkipsNoMatch ==
    Returned /\ engine = "Nfa" /\ ~Literals_is_empty(prefixes(prog)) =>
        Outcome = NfaNoJump(prog, call.text, call.start, call.caps0)

\* `aba|b` on "aba": the automaton reports `b` at 1, which ends before `aba`
\* at 0 does, and the simulator jumps over the match at 0.
C24_JumpsOverMatch ==
    /\ Returned /\ engine = "Nfa" /\ prog = [name |-> "aba|b", bytes |-> FALSE]
    /\ call.text = << 97, 98, 97 >> /\ call.start = 0
    /\ caps = << 1, 2 >>
    /\ Literals_find(prefixes(prog), call.text) = << 1, 2 >>
    /\ NfaNoJump(prog, call.text, 0, << None, None >>).caps = << 0, 3 >>

\* ------------------------------------------------------------------------
\* The outer loop of the backtracker

\* C26 (as stated): after a failed attempt the backtracker advances the start
\* by one and retries only if the program is not anchored_begin and the
\* start has not reached input.len; for an anchored_begin program the first
\* failed attempt ends the call with false.
C26_RetryUnlessAnchored ==
    [][phase = "bt_failed" =>
          IF anchored_begin(prog_insts(prog)) \/ bt.at >= Len(call.text)
          THEN phase' = "done" /\ result' = "false"
          ELSE phase' = "bt_backtrack" /\ bt'.at = bt.at + 1
      ]_vars

\* `^a` on "b" from 0: the attempt at 0 has failed and the attempt at 1 is
\* under way.
C26_AnchoredRetried ==
    /\ engine = "Backtrack" /\ prog = [name |-> "^a", bytes |-> TRUE]
    /\ call.text = << 98 >> /\ call.start = 0
    /\ phase = "bt_step" /\ bt.at = 1

\* ------------------------------------------------------------------------
\* The captures of the backtracker

\* The job the loop of backtrack pops next is a job to run an instruction.
InstJobOnTop == phase = "bt_pop" /\ bt.jobs /= << >> /\ bt.jobs[Len(bt.jobs)].kind = "Inst"

\* C27: whenever the backtracker pops a job {pc, at} to run an instruction,
\* the capture vector equals what it was when the job was pushed: the Save
\* instructions run in between have been undone by their SaveRestore jobs.
C27_CapsRolledBack ==
    /\ phase \in {"bt_pop", "bt_step", "bt_failed"} => Len(visits.pushed) = Len(bt.jobs)
    /\ InstJobOnTop => caps = visits.pushed[Len(bt.jobs)]

\* `(a)|b` on "b": the job for `b` was pushed by the Split, Save set slot 2
\* on the path of `(a)`, the path failed and the slot is None again.
C27_SaveUndone ==
    /\ InstJobOnTop /\ prog = [name |-> "(a)|b", bytes |-> TRUE]
    /\ call.text = << 98 >> /\ call.caps0 = << None, None, None, None >>
    /\ bt.jobs[Len(bt.jobs)] = Job_Inst(5, 0)
    /\ << 2, 0 >> \in visits.seen
    /\ caps = << 0, None, None, None >>

\* ------------------------------------------------------------------------
\* The captures of add

\* The capture vector on the first path in priority order (goto1 before
\* goto2) that leads from pc to target at offset at without consuming input
\* and without passing an instruction of blocked, as << vector >>; << >> if
\* there is none.
RECURSIVE EpsCaps(_, _, _, _, _, _, _)
EpsCaps(p, text, pc, target, at, blocked, capsv) ==
    LET inst == InstAt(prog_insts(p), pc)
        b1 == blocked \cup {pc}
    IN  IF pc \in blocked THEN << >>
        ELSE IF pc = target THEN << capsv >>
        ELSE CASE inst.op = "Save" ->
                    EpsCaps(p, text, inst.goto, target, at, b1,
                            IF inst.slot < Len(capsv)
                            THEN [capsv EXCEPT ![inst.slot + 1] = at] ELSE capsv)
               [] inst.op = "Split" ->
                    LET r1 == EpsCaps(p, text, inst.goto1, target, at, b1, capsv)
                    IN  IF r1 /= << >> THEN r1
                        ELSE EpsCaps(p, text, inst.goto2, target, at, b1, capsv)
               [] inst.op = "EmptyLook" ->
                    IF InstEmptyLook_matches(inst, previous_char(text, at), next_char(text, at))
                    THEN EpsCaps(p, text, inst.goto, target, at, b1, capsv)
                    ELSE << >>
               [] OTHER -> << >>

ParkOps == {"Match", "Char", "Ranges", "Bytes"}

\* Every thread that add(list, base, from, at) has parked, taking the list
\* from old to new, holds in its first Len(base) slots the captures of the
\* path by which it was first reached.
ParkedOnFirstPath(old, new, base, from, at) ==
    \A j \in (old.size + 1)..new.size :
        LET t == new.dense[j]
            r == EpsCaps(prog, call.text, from, t.pc, at,
                         { old.dense[i].pc : i \in 1..old.size }, base)
        IN  InstAt(prog_insts(prog), t.pc).op \in ParkOps =>
                r /= << >> /\ SubSeq(t.caps, 1, Len(base)) = r[1]

\* C28: add(list, caps, pc, at) leaves the capture array it is given as it
\* was before the call, and the threads it parks hold the captures of the
\* path by which they were first reached. add is called for pc 0 with the
\* caller's vector, and for the successor of a thread with the thread's.
C28_AddRestoresCaps ==
    [][/\ StartsThreads =>
              /\ caps' = caps
              /\ ParkedOnFirstPath(nfa.clist, nfa'.clist, caps, 0, nfa'.at)
       /\ phase = "nfa_step" /\ phase' /= "done"
            /\ InstAt(prog_insts(prog), NextThread.pc).op \in ParkOps \ {"Match"} =>
              /\ caps' = caps
              /\ nfa'.clist = nfa.clist
              /\ ParkedOnFirstPath(nfa.nlist, nfa'.nlist, NextThread.caps,
                                   InstAt(prog_insts(prog), NextThread.pc).goto,
                                   next_pos(Input_at(prog.bytes, call.text, nfa.at)))
      ]_vars

\* `(a)|b` at offset 0 with four slots: add has passed Save 0 and Save 2 and
\* parked the thread of `a` with slots 0 and 2 set and the thread of `b`
\* with slot 0 set, and the caller's vector holds no position.
C28_ParkedWithPathCaps ==
    /\ phase = "nfa_step" /\ nfa.i = 0 /\ nfa.at = 0
    /\ prog = [name |-> "(a)|b", bytes |-> FALSE]
    /\ caps = << None, None, None, None >>
    /\ \E i, j \in 1..nfa.clist.size :
          /\ nfa.clist.dense[i] = [pc |-> 3, caps |-> << 0, None, 0, None >>]
          /\ nfa.clist.dense[j] = [pc |-> 5, caps |-> << 0, None, None, None >>]

\* ------------------------------------------------------------------------
\* The sparse sets of threads

\* The pcs added to the list since it was last cleared.
Added(list) == { list.dense[i].pc : i \in 1..list.size }

SparseSetOk(list) ==
    /\ Len(list.dense) = Len(prog_insts(prog)) /\ Len(list.sparse) = Len(list.dense)
    /\ list.size <= Len(prog_insts(prog))
    /\ \A i, j \in 1..list.size : list.dense[i].pc = list.dense[j].pc => i = j
    /\ \A pc \in 0..(Len(prog_insts(prog)) - 1) :
          Threads_contains(list, pc) <=> pc \in Added(list)

InNfaRun == engine = "Nfa" /\ phase \in {"nfa_loop", "nfa_step", "nfa_advance"}

\* C29: in every state of a run of the NFA simulator, for clist and nlist,
\* size <= insts.len, the pcs in dense[0..size) are pairwise distinct and
\* contains(pc) is true iff pc is one of them, whatever the entries of
\* sparse and dense beyond them hold from earlier positions and earlier
\* calls; clear sets size to 0 and changes nothing else.
C29_SparseSet ==
    [][/\ InNfaRun' => SparseSetOk(nfa'.clist) /\ SparseSetOk(nfa'.nlist)
       /\ phase = "nfa_advance" /\ phase' = "nfa_loop" =>
              /\ nfa'.nlist = [nfa.clist EXCEPT !.size = 0]
              /\ nfa'.clist = nfa.nlist
      ]_vars

\* An entry of sparse left from an earlier position points into the live
\* part of dense, where another pc is stored, and contains answers false.
C29_StaleEntry ==
    /\ InNfaRun
    /\ \E pc \in 0..(Len(prog_insts(prog)) - 1) :
          /\ nfa.nlist.sparse[pc + 1] >= 1
          /\ nfa.nlist.sparse[pc + 1] < nfa.nlist.size
          /\ nfa.nlist.dense[nfa.nlist.sparse[pc + 1] + 1].pc /= pc
          /\ ~Threads_contains(nfa.nlist, pc)

\* ------------------------------------------------------------------------
\* The visited bitmap

\* The index of (pc, at) in the bitmap, and the indices of the bits set.
VisitKey(pc, at) == pc * (Len(call.text) + 1) + at
BitsSet(visited) ==
    UNION { { (i - 1) * BIT_SIZE + b : b \in visited[i] } : i \in 1..Len(visited) }
BitmapWords ==
    (Len(prog_insts(prog)) * (Len(call.text) + 1) + BIT_SIZE - 1) \div BIT_SIZE

\* The (pc, at) that the turn of step's loop in progress hands to has_visited.
NextVisit ==
    LET inst == InstAt(prog_insts(prog), bt.pc)
    IN  << IF inst.op = "Split" THEN inst.goto1 ELSE inst.goto, bt.sat >>
CallsHasVisited ==
    phase = "bt_step" /\ InstAt(prog_insts(prog), bt.pc).op \in {"Save", "Split", "EmptyLook"}

\* C30: after clear the bitmap has ceil(insts.len * (input.len + 1) / 32)
\* words, all zero; every (pc, at) handed to has_visited has pc < insts.len
\* and at <= input.len, so its word is inside the bitmap; and distinct
\* (pc, at) have distinct bits: the bits set are those of the pairs marked,
\* one bit for each pair.
C30_BitmapBounds ==
    phase \in BacktrackPhases =>
        /\ Len(bt.visited) = BitmapWords
        /\ phase = "bt_backtrack" /\ bt.at = call.start =>
               \A i \in 1..Len(bt.visited) : bt.visited[i] = {}
        /\ CallsHasVisited =>
               /\ NextVisit[1] < Len(prog_insts(prog))
               /\ NextVisit[2] <= Len(call.text)
               /\ VisitKey(NextVisit[1], NextVisit[2]) \div BIT_SIZE < Len(bt.visited)
        /\ \A m \in visits.marked : m[1] < Len(prog_insts(prog)) /\ m[2] <= Len(call.text)
        /\ BitsSet(bt.visited) = { VisitKey(m[1], m[2]) : m \in visits.marked }
        /\ Cardinality(BitsSet(bt.visited)) = Cardinality(visits.marked)

\* A run in which a pair at the end of the input has its bit in the second
\* word of the bitmap, next to pairs of the first word.
C30_SecondWord ==
    /\ phase \in BacktrackPhases
    /\ \E m \in visits.marked :
          /\ m[2] = Len(call.text)
          /\ VisitKey(m[1], m[2]) >= BIT_SIZE
          /\ VisitKey(m[1], m[2]) % BIT_SIZE \in bt.visited[2]
    /\ \E m \in visits.marked : VisitKey(m[1], m[2]) < BIT_SIZE

\* ------------------------------------------------------------------------
\* The budgets of the prefix extractor

\* The literals of the branches of the alternation at the head of insts,
\* each within its own budget.
AllBranchLiterals(insts) == BranchLiterals(insts, PriorityHeads(insts, 1, {}))
Extracted == lit.stage \in {"alts", "matcher", "found"} /\ lit.insts /= << >>

\* C31: the prefix set of the alternation walker is empty or has at most
\* BuildPrefixes_limit bytes; if the literals of the branches together exceed
\* the budget, or a branch has no literal, the result is the empty set with
\* at_match false, never the literals of some of the branches; otherwise it
\* is the literals of all of them.
C31_GlobalBudget ==
    Extracted =>
        LET all == AllBranchLiterals(lit.insts)
            over == TotalBytes(all) > BuildPrefixes_limit
        IN  /\ num_bytes(lit.alts) <= BuildPrefixes_limit
            /\ over \/ HasEmptyBranch(lit.insts) => lit.alts = AlternateLiterals_empty
            /\ lit.alts.literals \in {<< >>, all}
            /\ lit.alts.literals = << >> => ~lit.alts.at_match

\* Eleven branches of 300 bytes: ten of them fit, and the set is empty.
C31_BudgetBlown ==
    /\ Extracted /\ lit.insts = Insts_wide(WideFit + 1)
    /\ TotalBytes(AllBranchLiterals(lit.insts)) = BuildPrefixes_limit + BuildPrefixes_limit \div 10
    /\ lit.alts = AlternateLiterals_empty

\* The runs of the required-literal walker made for insts: one from the head
\* of each branch, with a tenth of the global budget.
PathRuns(insts) ==
    { BuildRequiredLiterals_literals(insts, BuildPrefixes_limit \div 10, h)
        : h \in BranchHeads(insts, {1}, {}) }

\* C32: the literals gathered by one run of the required-literal walker
\* never have more bytes than a tenth of the global budget.
C32_PathBudget ==
    Extracted => \A run \in PathRuns(lit.insts) : num_bytes(run) <= BuildPrefixes_limit \div 10

\* The program is one path that begins with a byte range, and the values of
\* that range.
BeginsWithBytes(insts) == Len(insts) > 1 /\ insts[2].op = "Bytes"
RangeValues(insts) == insts[2].start .. insts[2].end

\* C33: the expansion of a byte range start..=end is computed without 8-bit
\* overflow: the extraction completes, and the literals begin with each of
\* the end - start + 1 values of the range, also if end is 255.
C33_ByteRangeExpansion ==
    lit.stage /= "insts" /\ BeginsWithBytes(lit.insts) =>
        /\ lit.stage /= "panic"
        /\ { l[1] : l \in { lit.alts.literals[i] : i \in 1..Len(lit.alts.literals) } }
              = RangeValues(lit.insts)

\* C34: the alternation walker ends on every program, also if the Split
\* instructions form a cycle, and runs the required-literal walker at most
\* once at each branch.
C34_BranchOnce ==
    Extracted =>
        LET runs == BuildPrefixes_runs(lit.insts)
        IN  \A i, j \in 1..Len(runs) : runs[i] = runs[j] => i = j

\* ------------------------------------------------------------------------
\* The searcher of one literal

\* The offsets at which pat occurs in haystack.
Occurrences(pat, haystack) == { i \in 0..Len(haystack) : OccursAt(pat, haystack, i) }

SingleSearched == lit.stage = "found" /\ lit.m.matcher.kind = "Single"

\* C35: SingleSearch::find returns the least offset at which the pattern
\* occurs in the haystack, None if and only if it does not occur, and never
\* reads or slices the haystack out of bounds.
C35_SingleSearchLeftmost ==
    SingleSearched =>
        LET pat == lit.m.matcher.searcher.pat
            occ == Occurrences(pat, lit.haystack)
            at == SingleSearch_find(lit.m.matcher.searcher, lit.haystack)
        IN  /\ at /= Fatal
            /\ at = None <=> occ = {}
            /\ at /= None => at = SetMin(occ)
            /\ lit.hit = IF at = None THEN << >> ELSE << at, at + Len(pat) >>

\* `aab` is found at offset 2 of `aaaab`, after two shifts of the window.
C35_FoundAfterShift ==
    /\ SingleSearched
    /\ lit.m.matcher.searcher.pat = << 97, 97, 98 >>
    /\ lit.haystack = << 97, 97, 97, 97, 98 >>
    /\ lit.hit = << 2, 5 >>

\* ------------------------------------------------------------------------
\* The functions of inst.rs, applied to arguments: a Ranges instruction and a
\* character (InstRanges::matches), or an assertion and the two characters
\* around a position (InstEmptyLook::matches).

\* Characters of the range lists are 0..MaxRangeChar.
MaxRangeChar == 7

\* The ordered list of disjoint ranges that a marking of the characters
\* stands for: 0 for a character outside every range, 2 for the first of a
\* range and 1 for each further one of the same range.
Markings ==
    { f \in [0..MaxRangeChar -> 0..2] :
        \A i \in 0..MaxRangeChar : f[i] = 1 => i > 0 /\ f[i - 1] /= 0 }

RECURSIVE RangeList(_, _)
RangeList(f, i) ==
    IF i > MaxRangeChar THEN << >>
    ELSE IF f[i] = 0 THEN RangeList(f, i + 1)
    ELSE LET j == CHOOSE j \in i..MaxRangeChar :
                    /\ \A k \in (i + 1)..j : f[k] = 1
                    /\ j < MaxRangeChar => f[j + 1] /= 1
         IN  << << i, j >> >> \o RangeList(f, j + 1)

RangeLists == { RangeList(f, 0) : f \in Markings }

\* The characters given to the assertions: none, the line feed, a space, and
\* the word characters `0`, `A`, `_`, `a`.
LookChars == {None, 10, 32, 48, 65, 95, 97}
Looks ==
    {"StartLine", "EndLine", "StartText", "EndText", "WordBoundary", "NotWordBoundary"}

\* Texts of up to MaxLookLen of the characters that are present.
MaxLookLen == 3
LookTexts == UNION { [1..n -> LookChars \ {None}] : n \in 0..MaxLookLen }

InitFn ==
    /\ prog = [name |-> "a", bytes |-> TRUE]
    /\ call = NoCall
    /\ caps = << >>
    /\ engine = "none"
    /\ phase = "idle"
    /\ result = "none"
    /\ bt = BackMachine_new
    /\ nfa = NfaThreads_new
    /\ cur = 0
    /\ calls = 0
    /\ steps = 0
    /\ visits = NoVisits
    /\ pool = PoolInit
    /\ lit = NoLit
    /\ \/ \E ranges \in RangeLists, c \in (0..(MaxRangeChar + 1)) \cup {None} :
             app = [NoApp EXCEPT !.fn = "ranges", !.arg = << Ranges(ranges, 0), c >>]
       \/ \E look \in Looks, c1, c2 \in LookChars :
             app = [NoApp EXCEPT !.fn = "look", !.arg = << EmptyLook(look, 0), c1, c2 >>]
       \/ \E look \in Looks, text \in LookTexts :
             \E at \in 0..Len(text) :
                app = [NoApp EXCEPT !.fn = "look_at", !.arg = << EmptyLook(look, 0), text, at >>]

FnUnchanged ==
    UNCHANGED << prog, call, caps, engine, phase, result, bt, nfa, cur, calls, steps,
                 visits, pool, lit >>

\* InstRanges::matches(c)
ApplyRanges ==
    /\ app.fn = "ranges" /\ ~app.done
    /\ app' = [app EXCEPT !.done = TRUE, !.ret = InstRanges_matches(app.arg[1], app.arg[2])]
    /\ FnUnchanged

\* InstEmptyLook::matches(c1, c2)
ApplyLook ==
    /\ app.fn = "look" /\ ~app.done
    /\ app' = [app EXCEPT !.done = TRUE,
                       !.ret = InstEmptyLook_matches(app.arg[1], app.arg[2], app.arg[3])]
    /\ FnUnchanged

\* The EmptyLook arm of Backtrack::step and of Nfa::add at the position at
\* of the text: inst.matches(previous_char(at), next_char(at)).
ApplyLookAt ==
    /\ app.fn = "look_at" /\ ~app.done
    /\ app' = [app EXCEPT !.done = TRUE,
                       !.ret = InstEmptyLook_matches(
                                   app.arg[1], previous_char(app.arg[2], app.arg[3]),
                                   next_char(app.arg[2], app.arg[3]))]
    /\ FnUnchanged

NextFn == ApplyRanges \/ ApplyLook \/ ApplyLookAt

SpecFn == InitFn /\ [][NextFn]_vars

RangesApplied == app.fn = "ranges" /\ app.done

\* C36: InstRanges::matches(c) is true iff c lies in one of the ranges, for
\* every ordered list of disjoint ranges, of up to four ranges and of more,
\* and is false for the absent character.
C36_RangesMatches ==
    RangesApplied =>
        LET ranges == app.arg[1].ranges
            c == app.arg[2]
        IN  /\ app.ret <=> c /= None /\ \E i \in 1..Len(ranges) :
                                          ranges[i][1] <= c /\ c <= ranges[i][2]
            /\ c = None => ~app.ret

\* The character 7 is in the sixth of six ranges, which the scan of the first
\* four does not reach.
C36_FoundBySearch ==
    /\ RangesApplied
    /\ app.arg[1].ranges = << <<0, 0>>, <<1, 1>>, <<2, 3>>, <<4, 4>>, <<5, 5>>, <<7, 7>> >>
    /\ app.arg[2] = 7
    /\ app.ret = TRUE

\* The table of the assertions, for the character before a position and the
\* character after it, each possibly absent.
WordChars == (48..57) \cup (65..90) \cup (97..122) \cup {95}

LookTable(look, prev, next) ==
    CASE look = "StartLine" -> prev \in {None, 10}
      [] look = "EndLine" -> next \in {None, 10}
      [] look = "StartText" -> prev = None
      [] look = "EndText" -> next = None
      [] look = "WordBoundary" -> (prev \in WordChars) /= (next \in WordChars)
      [] look = "NotWordBoundary" -> (prev \in WordChars) = (next \in WordChars)

\* The i-th character of the text, absent if there is none.
Adjacent(text, i) == IF i \in 1..Len(text) THEN text[i] ELSE None

\* C37: an assertion holds of a pair (prev, next) of possibly absent
\* characters as its table says, NotWordBoundary being the complement of
\* WordBoundary; evaluated at a position of a text, as the engines do, it
\* holds as the table says of the characters of the whole text before and
\* after the position.
C37_LookTable ==
    /\ app.fn = "look" /\ app.done =>
          app.ret = LookTable(app.arg[1].look, app.arg[2], app.arg[3])
    /\ app.fn = "look_at" /\ app.done =>
          app.ret = LookTable(app.arg[1].look, Adjacent(app.arg[2], app.arg[3]),
                              Adjacent(app.arg[2], app.arg[3] + 1))

\* NotWordBoundary holds between a space and a line feed, at offset 1 of a
\* text of three characters.
C37_NoWordOnEitherSide ==
    /\ app.fn = "look_at" /\ app.done
    /\ app.arg = << EmptyLook("NotWordBoundary", 0), << 32, 10, 97 >>, 1 >>
    /\ app.ret = TRUE

\* ------------------------------------------------------------------------
\* The literals engine on request

\* The literals engine cannot stand for the program in this call.
CannotExecLiterals ==
    ~(Len(caps) <= 2 /\ prefixes(prog).at_match /\ preserves_priority(prefixes(prog)))

\* C38: exec returns true only if the program matches the text at or after
\* start, whichever engine is asked for; a call that asks for the literals
\* engine when it cannot stand for the program returns what the same call
\* returns under automatic selection.
C38_LiteralsRequestSafe ==
    /\ phase = "done" /\ result = "true" =>
          LeftmostFirst(prog, call.text, call.start, call.caps0).result = "true"
    /\ phase = "enter" /\ call.pref = "Literals" /\ CannotExecLiterals =>
          Exec(prog, engine, call.text, call.start, caps).result
            = Exec(prog, StatedEngine("Automatic", Len(caps), call.text),
                   call.text, call.start, caps).result

\* ------------------------------------------------------------------------
\* The offsets in the capture vector

\* An offset an engine may write in this call.
InCall(v) == call.start <= v /\ v <= Len(call.text)

\* A call is running or has returned.
InOrAfterCall == phase \notin {"idle", "dispatch", "enter"}

\* C39: after a call that returned true, slots 0 and 1 are set and
\* start <= caps[0] <= caps[1] <= input.len; during and after a call every
\* slot holds what the caller passed or an offset in start..=input.len; after
\* a call that returned true on a vector passed unset, a group with both
\* slots set has open <= close.
C39_SlotsInBounds ==
    /\ phase = "done" /\ result = "true" /\ Len(caps) >= 2 =>
          /\ caps[1] /= None /\ caps[2] /= None
          /\ call.start <= caps[1] /\ caps[1] <= caps[2] /\ caps[2] <= Len(call.text)
    /\ InOrAfterCall =>
          \A i \in 1..Len(caps) : caps[i] = call.caps0[i] \/ InCall(caps[i])
    /\ phase = "done" /\ result = "true" /\ (\A i \in 1..Len(caps) : call.caps0[i] = None) =>
          \A g \in 1..(Len(caps) \div 2) :
             caps[2 * g - 1] /= None /\ caps[2 * g] /= None => caps[2 * g - 1] <= caps[2 * g]

\* ------------------------------------------------------------------------
\* The shift table of the searcher of one literal

SingleBuilt == lit.stage \in {"matcher", "found"} /\ lit.m.matcher.kind = "Single"

\* The indices, from 0, at which b occurs in pat[0..len-1], the pattern
\* without its last byte.
IndicesOf(b, pat) == { i \in 0..(Len(pat) - 2) : pat[i + 1] = b }
SetMax(S) == CHOOSE x \in S : \A y \in S : y <= x

\* The table has 256 entries, each in 1..=pat.len; the entry of a byte that
\* occurs in pat[0..len-1] is pat.len - less, less its last index there; the
\* entry of any other byte is pat.len.
ShiftTableIs(less) ==
    LET pat == lit.m.matcher.searcher.pat
        shift == lit.m.matcher.searcher.shift
    IN  /\ DOMAIN shift = 0..U8_MAX
        /\ \A b \in 0..U8_MAX :
              /\ shift[b] \in 1..Len(pat)
              /\ shift[b] = IF IndicesOf(b, pat) = {} THEN Len(pat)
                            ELSE Len(pat) - SetMax(IndicesOf(b, pat)) - less

\* C40 (as stated): the entry of a byte of pat[0..len-1] is pat.len less its
\* last index in pat[0..len-1].
C40_StatedShift == SingleBuilt => ShiftTableIs(0)

\* C40 (amended): the entry of a byte of pat[0..len-1] is pat.len - 1 less
\* its last index in pat[0..len-1], the distance from its last occurrence
\* there to the last byte of the pattern; the entry of every other byte is
\* pat.len; the table has 256 entries, each in 1..=pat.len.
C40_ShiftTable == SingleBuilt => ShiftTableIs(1)

\* The table of `aab`: 1 for `a`, whose last index among the first two bytes
\* is 1, and 3 for `b`, which occurs at the end only.
C40_TableOfAab ==
    /\ SingleBuilt
    /\ lit.m.matcher.searcher.pat = << 97, 97, 98 >>
    /\ lit.m.matcher.searcher.shift[97] = 1
    /\ lit.m.matcher.searcher.shift[98] = 3

====
